---- MODULE Spec2Model ----
(***************************************************************************)
(* Trailing-stop regime and hard-stop gating engine of trailingedge        *)
(* (src/src/trailingedge/main.py) with the listeners that feed it.          *)
(*                                                                         *)
(* Numbers.  Python floats are modelled as exact rationals <<n, d>> in      *)
(* lowest terms with d > 0; Python's None and pandas' NaN are the strings   *)
(* "None" and "NaN".  Decimal strings of the exchange payloads ("c" of a    *)
(* kline, "price"/"quantity" of an order) are modelled by Dec8 records,     *)
(* a whole part and eight fractional digits.                                *)
(***************************************************************************)
EXTENDS Integers, Sequences, FiniteSets, TLC

None == "None"
NaN == "NaN"

\* the kind of step an observation (the variable `last`) records.  TLC
\* compares two records field by field in the order in which it first met
\* the field names and cannot compare None with a number or a record;
\* `outcome` is met here, before every other field name, so that two
\* observations of different kinds are told apart by it.
OutcomeOf(obs) == obs.outcome

(***************************************************************************)
(* Rational arithmetic                                                     *)
(***************************************************************************)
Abs(x) == IF x < 0 THEN -x ELSE x

RECURSIVE GCD(_, _)
GCD(a, b) == IF b = 0 THEN a ELSE GCD(b, a % b)

Rat(n, d) ==
    LET g == GCD(Abs(n), Abs(d))
        s == IF d < 0 THEN -1 ELSE 1
    IN  <<(s * n) \div g, (s * d) \div g>>

Zero == <<0, 1>>
One == <<1, 1>>

\* numerator of a over the least common denominator of a and b
Over(a, b) == a[1] * (b[2] \div GCD(a[2], b[2]))
Lcd(a, b) == a[2] * (b[2] \div GCD(a[2], b[2]))

RAdd(a, b) == Rat(Over(a, b) + Over(b, a), Lcd(a, b))
RSub(a, b) == Rat(Over(a, b) - Over(b, a), Lcd(a, b))
RMul(a, b) ==
    LET g1 == GCD(Abs(a[1]), b[2])
        g2 == GCD(Abs(b[1]), a[2])
    IN  Rat((a[1] \div g1) * (b[1] \div g2), (a[2] \div g2) * (b[2] \div g1))
\* a / b for b # 0 (Python raises ZeroDivisionError for b = 0; callers test it)
RDiv(a, b) == RMul(a, Rat(b[2], b[1]))
RLt(a, b) == Over(a, b) < Over(b, a)
RLe(a, b) == Over(a, b) <= Over(b, a)
RGt(a, b) == RLt(b, a)
RGe(a, b) == RLe(b, a)
RMax(a, b) == IF RGt(b, a) THEN b ELSE a
RMin(a, b) == IF RLt(b, a) THEN b ELSE a
\* int(x): truncation toward zero
RTrunc(a) == IF a[1] >= 0 THEN a[1] \div a[2] ELSE -((-a[1]) \div a[2])

(***************************************************************************)
(* Configuration (src/src/trailingedge/config.py)                           *)
(***************************************************************************)
BASE_ASSET == "ETH"
QUOTE_ASSET == "FDUSD"
Assets == {BASE_ASSET, QUOTE_ASSET}

LOT_SIZE == Rat(1, 10000)
MIN_QTY == Rat(1, 10000)
MIN_NOTIONAL == Rat(5, 1)
FEE == Rat(0, 1)
BUFFER == Rat(20, 10000)
START_FACTOR == Rat(5, 10)
MIN_FACTOR == Rat(1, 10)
GAIN_SCALE_FRAC_BASE == Rat(5, 1000)
GAIN_SCALE_FRAC_QUOTE == Rat(5, 1000)
MIN_GAIN_TRIGGER_FRAC_BASE == Rat(1, 100)
MIN_GAIN_TRIGGER_FRAC_QUOTE == Rat(1, 100)
HARD_STOP_THRESHOLD_FRAC == Rat(5, 1000)
DONCHIAN_GAIN_MULTIPLIER == Rat(5, 10)

\* The three window sizes are scaled down from 1440 / 40 / 2 so that the
\* rolling window fills, evicts and lags within a few bars; the relations
\* ROLLING_KLINES_MAXLEN >= DONCHIAN_WINDOW + DONCHIAN_SHIFT and
\* DONCHIAN_WINDOW > 1 of the shipped configuration are kept.
ROLLING_KLINES_MAXLEN == 3
DONCHIAN_WINDOW == 2
DONCHIAN_SHIFT == 1

(***************************************************************************)
(* Pure helpers of main.py                                                 *)
(***************************************************************************)
\* clip(value, step): (int(value / step)) * step, 0.0 for a missing operand
clip(value, step) ==
    IF value = None \/ step = None \/ step = Zero
    THEN Zero
    ELSE RMul(Rat(RTrunc(RDiv(value, step)), 1), step)

\* detect_regime with the two branches of the final `if` exchanged
detect_regime_QuoteFirst(bal, bid, ask) ==
    LET base_amt == bal[BASE_ASSET]
        quote_amt == bal[QUOTE_ASSET]
        can_sell_base == RGe(base_amt, MIN_QTY) /\ RGe(RMul(base_amt, bid), MIN_NOTIONAL)
        can_buy_base == RGe(quote_amt, MIN_NOTIONAL)
                        /\ RGe(clip(RDiv(quote_amt, ask), LOT_SIZE), MIN_QTY)
    IN  IF can_buy_base THEN "QUOTE"
        ELSE IF can_sell_base THEN "BASE"
        ELSE None

\* detect_regime(bal, bid, ask) with debug = False.  The quotient
\* quote_amt / ask is evaluated only when quote_amt >= MIN_NOTIONAL
\* (short-circuit `and`); ask is a positive price in every snapshot.
detect_regime(bal, bid, ask) ==
    LET base_amt == bal[BASE_ASSET]
        quote_amt == bal[QUOTE_ASSET]
        can_sell_base == RGe(base_amt, MIN_QTY) /\ RGe(RMul(base_amt, bid), MIN_NOTIONAL)
        can_buy_base == RGe(quote_amt, MIN_NOTIONAL)
                        /\ RGe(clip(RDiv(quote_amt, ask), LOT_SIZE), MIN_QTY)
    IN  IF can_sell_base THEN "BASE"
        ELSE IF can_buy_base THEN "QUOTE"
        ELSE None

\* value_drop_frac(current_value, anchor): `if anchor` is false for None and 0
value_drop_frac(current_value, anchor) ==
    IF anchor # None /\ anchor # Zero /\ current_value # None
    THEN RDiv(RSub(anchor, current_value), anchor)
    ELSE Zero


(***************************************************************************)
(* Decimal strings of the wire formats                                     *)
(***************************************************************************)
Pow8 == 100000000

\* a decimal string "w.ffffffff" (non-negative), e.g. "203.00000000"
Dec8(w, f) == [w |-> w, f |-> f]

\* float("w.ffffffff")
float_str(d) == RAdd(Rat(d.w, 1), Rat(d.f, Pow8))

RECURSIVE FracDigits(_, _, _, _)
FracDigits(rem, d, k, acc) ==
    IF k = 0 THEN <<acc, rem>>
    ELSE FracDigits((rem * 10) % d, d, k - 1, acc * 10 + ((rem * 10) \div d))

\* f"{value:.8f}" for value >= 0: eight fractional digits, round half to even
fmt8(value) ==
    LET n == value[1]
        d == value[2]
        w == n \div d
        fr == FracDigits(n % d, d, 8, 0)
        up == \/ 2 * fr[2] > d
              \/ (2 * fr[2] = d /\ fr[1] % 2 = 1)
        f == IF up THEN fr[1] + 1 ELSE fr[1]
    IN  IF f = Pow8 THEN Dec8(w + 1, 0) ELSE Dec8(w, f)

(***************************************************************************)
(* indicators/donchian.py                                                  *)
(***************************************************************************)
RECURSIVE SeqMax(_)
SeqMax(s) == IF Len(s) = 1 THEN s[1] ELSE RMax(s[1], SeqMax(Tail(s)))

RECURSIVE SeqMin(_)
SeqMin(s) == IF Len(s) = 1 THEN s[1] ELSE RMin(s[1], SeqMin(Tail(s)))

\* pd.Series(closes).rolling(window, min_periods=1).max() at 1-based index j
rolling_max(closes, window, j) ==
    SeqMax(SubSeq(closes, IF j - window + 1 < 1 THEN 1 ELSE j - window + 1, j))

rolling_min(closes, window, j) ==
    SeqMin(SubSeq(closes, IF j - window + 1 < 1 THEN 1 ELSE j - window + 1, j))

\* compute_donchian_channels without the .shift(shift): the window ends at
\* the bar itself
compute_donchian_channels_NoShift(klines, window, shift) ==
    LET closes == [i \in 1..Len(klines) |-> float_str(klines[i].c)]
        upper == [i \in 1..Len(klines) |-> rolling_max(closes, window, i)]
        lower == [i \in 1..Len(klines) |-> rolling_min(closes, window, i)]
        mid == [i \in 1..Len(klines) |-> RDiv(RAdd(upper[i], lower[i]), Rat(2, 1))]
    IN  [upper |-> upper, lower |-> lower, mid |-> mid]

\* compute_donchian_channels(klines, window, shift, row_format="dict"):
\* three arrays of the length of klines; .shift(shift) leaves NaN in the
\* first `shift` places, and NaN propagates through (upper + lower) / 2
compute_donchian_channels(klines, window, shift) ==
    LET closes == [i \in 1..Len(klines) |-> float_str(klines[i].c)]
        upper == [i \in 1..Len(klines) |->
                    IF i - shift < 1 THEN NaN ELSE rolling_max(closes, window, i - shift)]
        lower == [i \in 1..Len(klines) |->
                    IF i - shift < 1 THEN NaN ELSE rolling_min(closes, window, i - shift)]
        mid == [i \in 1..Len(klines) |->
                    IF upper[i] = NaN \/ lower[i] = NaN THEN NaN
                    ELSE RDiv(RAdd(upper[i], lower[i]), Rat(2, 1))]
    IN  [upper |-> upper, lower |-> lower, mid |-> mid]

(***************************************************************************)
(* websocket/orders.py                                                     *)
(***************************************************************************)
\* order_replace(ws, symbol, side, price, qty, clientOrderId, origClientOrderId):
\* the order.cancelReplace payload handed to ws.send
order_replace(side, price, qty, clientOrderId, origClientOrderId) ==
    [id |-> clientOrderId,
     method |-> "order.cancelReplace",
     cancelReplaceMode |-> "ALLOW_FAILURE",
     cancelOrigClientOrderId |-> origClientOrderId,
     side |-> side,
     type |-> "LIMIT_MAKER",
     price |-> fmt8(price),
     quantity |-> fmt8(qty),
     newClientOrderId |-> clientOrderId]

(***************************************************************************)
(* websocket/account_stream.py                                             *)
(***************************************************************************)
\* get_balance_from_snapshot(snapshot_dict, base_asset, quote_asset);
\* snapshot_dict.get(asset, {}).get(key, 0.0)
get_balance_from_snapshot(snapshot_dict) ==
    LET free(a) == IF a \in DOMAIN snapshot_dict THEN snapshot_dict[a].free ELSE Zero
        total(a) == IF a \in DOMAIN snapshot_dict THEN snapshot_dict[a].total ELSE Zero
    IN  [free |-> [a \in Assets |-> free(a)],
         locked |-> [a \in Assets |-> RMax(Zero, RSub(total(a), free(a)))],
         total |-> [a \in Assets |-> total(a)]]

(***************************************************************************)
(* notifications/telegram.py                                               *)
(***************************************************************************)
\* what requests.post(url, data=payload, timeout=5) does: it returns a
\* response with a status code, or raises (Timeout, ConnectionError)
HttpOutcomes == {"200", "400", "Timeout"}

\* `if not x`: None and the empty string are falsy
Falsy(x) == x = None \/ x = ""

\* variant of send_telegram_message without the `except Exception` clause,
\* used to test the sensitivity of C31
send_telegram_message_NoCatch(token, default_chat, chat_id, http) ==
    IF Falsy(token) THEN [raised |-> FALSE, value |-> FALSE, posted |-> FALSE]
    ELSE LET target_chat_id == IF ~Falsy(chat_id) THEN chat_id ELSE default_chat
         IN  IF Falsy(target_chat_id)
             THEN [raised |-> FALSE, value |-> FALSE, posted |-> FALSE]
             ELSE IF http = "Timeout"
                  THEN [raised |-> TRUE, value |-> FALSE, posted |-> TRUE]
                  ELSE [raised |-> FALSE, value |-> (http = "200"), posted |-> TRUE]

\* send_telegram_message(message, chat_id, return_response=False) with
\* TELEGRAM_BOT_TOKEN = token and TELEGRAM_CHAT_ID = default_chat; `http` is
\* what requests.post does if it is called (`posted`)
send_telegram_message(token, default_chat, chat_id, http) ==
    IF Falsy(token) THEN [raised |-> FALSE, value |-> FALSE, posted |-> FALSE]
    ELSE LET target_chat_id == IF ~Falsy(chat_id) THEN chat_id ELSE default_chat
         IN  IF Falsy(target_chat_id)
             THEN [raised |-> FALSE, value |-> FALSE, posted |-> FALSE]
             ELSE IF http = "Timeout"
                  THEN \* except Exception as e: ... return False
                       [raised |-> FALSE, value |-> FALSE, posted |-> TRUE]
                  ELSE [raised |-> FALSE, value |-> (http = "200"), posted |-> TRUE]

\* broadcast_telegram_message(message) with chat_id_list = None and
\* return_response = False, in the environment env = [token, chat, group1,
\* group2]; https[i] is what requests.post does in the i-th send.  `calls`
\* lists the sends made: the chat id, what the post did (None if there was
\* no post) and the value returned.
RECURSIVE BroadcastLoop(_, _, _, _, _)
BroadcastLoop(env, chat_id_list, https, i, acc) ==
    IF i > Len(chat_id_list) THEN acc
    ELSE LET cid == chat_id_list[i]
             resp == send_telegram_message(env.token, env.chat, cid, https[i])
             call == [chat_id |-> cid, http |-> IF resp.posted THEN https[i] ELSE None,
                      value |-> resp.value]
         IN  IF resp.raised
             THEN [acc EXCEPT !.raised = TRUE, !.calls = Append(acc.calls, call)]
             ELSE BroadcastLoop(env, chat_id_list, https, i + 1,
                                [acc EXCEPT !.calls = Append(acc.calls, call),
                                            !.value = IF resp.value THEN acc.value + 1
                                                      ELSE acc.value])

broadcast_telegram_message(env, https) ==
    LET chat_id_list == (IF ~Falsy(env.group1) THEN <<env.group1>> ELSE <<>>)
                        \o (IF ~Falsy(env.group2) THEN <<env.group2>> ELSE <<>>)
    IN  BroadcastLoop(env, chat_id_list, https, 1,
                      [env |-> env, raised |-> FALSE, value |-> 0, calls |-> <<>>])

(***************************************************************************)
(* TrailingState                                                           *)
(***************************************************************************)
\* TrailingState.__init__.  live_bal_free / live_bal_locked / live_bal_total
\* are overwritten from the account snapshot at the top of every loop
\* iteration before anything reads them; they are carried as the
\* iteration's `bal` (recorded in last.bal) and not as persistent fields.
TrailingState ==
    [anchor_value |-> None,
     high_value |-> None,
     current_regime |-> None,
     prev_regime |-> None,
     maker_exit_armed |-> FALSE,
     hard_stop_armed |-> FALSE,
     donchian_gate_active |-> FALSE,
     last_donchian_regime |-> None,
     manual_exit_triggered |-> FALSE]

\* variant of the flip reset that leaves hard_stop_armed alone, used to test
\* the sensitivity of C9
reset_for_regime_flip_KeepHardStop(self, current_value) ==
    [self EXCEPT !.anchor_value = current_value,
                 !.high_value = current_value,
                 !.maker_exit_armed = FALSE]

\* TrailingState.reset_for_regime_flip
reset_for_regime_flip(self, current_value) ==
    [self EXCEPT !.anchor_value = current_value,
                 !.high_value = current_value,
                 !.maker_exit_armed = FALSE,
                 !.hard_stop_armed = FALSE]


(***************************************************************************)
(* main_trading_loop: the steps of one iteration of `while True`            *)
(***************************************************************************)
\* variant of the window update that appends without evicting, used to test
\* the sensitivity of C19
RollingKlinesUpdate_NoEvict(rolling, current_kline) ==
    IF rolling = <<>>
    THEN <<current_kline>>
    ELSE IF current_kline.T > rolling[Len(rolling)].T
         THEN Append(rolling, current_kline)
         ELSE [rolling EXCEPT ![Len(rolling)] = current_kline]

\* 2. rolling kline window management
RollingKlinesUpdate(rolling, current_kline) ==
    IF rolling = <<>>
    THEN <<current_kline>>
    ELSE IF current_kline.T > rolling[Len(rolling)].T
         THEN Append(IF Len(rolling) >= ROLLING_KLINES_MAXLEN THEN Tail(rolling) ELSE rolling,
                     current_kline)
         ELSE [rolling EXCEPT ![Len(rolling)] = current_kline]

\* a - b on floats that may be NaN
NaNSub(a, b) == IF a = NaN \/ b = NaN THEN NaN ELSE RSub(a, b)

\* variant of the gate reset that releases a BASE gate on the wrong side of
\* the mid (close < mid), used to test the sensitivity of C3
DonchianGateReset_WrongSide(s, bal, last_close, last_mid, bid, ask) ==
    IF ~s.donchian_gate_active THEN s
    ELSE IF last_mid # NaN /\ RLt(last_close, last_mid)
    THEN LET reset_value == IF s.last_donchian_regime = "BASE"
                            THEN RMul(bal.total[BASE_ASSET], bid)
                            ELSE RDiv(bal.total[QUOTE_ASSET], ask)
         IN  [s EXCEPT !.donchian_gate_active = FALSE,
                       !.last_donchian_regime = None,
                       !.anchor_value = reset_value,
                       !.high_value = reset_value]
    ELSE s

\* variant of the gate reset that re-anchors without resetting the high
\* water mark, used to test the sensitivity of C39
DonchianGateReset_AnchorOnly(s, bal, last_close, last_mid, bid, ask) ==
    IF ~s.donchian_gate_active THEN s
    ELSE IF s.last_donchian_regime = "BASE"
    THEN IF last_mid # NaN /\ RGt(last_close, last_mid)
         THEN [s EXCEPT !.donchian_gate_active = FALSE,
                        !.last_donchian_regime = None,
                        !.anchor_value = RMul(bal.total[BASE_ASSET], bid)]
         ELSE s
    ELSE IF s.last_donchian_regime = "QUOTE"
    THEN IF last_mid # NaN /\ RLt(last_close, last_mid)
         THEN [s EXCEPT !.donchian_gate_active = FALSE,
                        !.last_donchian_regime = None,
                        !.anchor_value = IF RGt(ask, Zero)
                                         THEN RDiv(bal.total[QUOTE_ASSET], ask)
                                         ELSE Zero]
         ELSE s
    ELSE s

\* 3. Donchian gate reset: `if state.donchian_gate_active: ...`
\* (every comparison with NaN is False)
DonchianGateReset(s, bal, last_close, last_mid, bid, ask) ==
    IF ~s.donchian_gate_active THEN s
    ELSE IF s.last_donchian_regime = "BASE"
    THEN IF last_mid # NaN /\ RGt(last_close, last_mid)
         THEN LET reset_value == RMul(bal.total[BASE_ASSET], bid)
              IN  [s EXCEPT !.donchian_gate_active = FALSE,
                            !.last_donchian_regime = None,
                            !.anchor_value = reset_value,
                            !.high_value = reset_value]
         ELSE s
    ELSE IF s.last_donchian_regime = "QUOTE"
    THEN IF last_mid # NaN /\ RLt(last_close, last_mid)
         THEN LET reset_value == IF RGt(ask, Zero)
                                 THEN RDiv(bal.total[QUOTE_ASSET], ask)
                                 ELSE Zero
              IN  [s EXCEPT !.donchian_gate_active = FALSE,
                            !.last_donchian_regime = None,
                            !.anchor_value = reset_value,
                            !.high_value = reset_value]
         ELSE s
    ELSE s

\* 4. current_value of the detected regime (BASE or QUOTE)
CurrentValue(regime, bal, bid, ask) ==
    IF regime = "BASE" THEN RMul(bal[BASE_ASSET], bid)
    ELSE IF RGt(ask, Zero) THEN RDiv(bal[QUOTE_ASSET], ask) ELSE Zero

GainScaleFrac(regime) ==
    IF regime = "BASE" THEN GAIN_SCALE_FRAC_BASE ELSE GAIN_SCALE_FRAC_QUOTE

\* Python's max(a, b, c): keeps the running maximum unless the next item
\* compares greater; a NaN that is not first never does
PyMax3(a, b, c) ==
    LET m1 == IF b # NaN /\ a # NaN /\ RGt(b, a) THEN b ELSE a
    IN  IF c # NaN /\ m1 # NaN /\ RGt(c, m1) THEN c ELSE m1

\* 5. min gain threshold: max(static, fee + buffer, Donchian width)
MinGainForTrigger(regime, anchor, bal, donchian_width, ask) ==
    LET min_gain_trigger_frac == IF regime = "BASE" THEN MIN_GAIN_TRIGGER_FRAC_BASE
                                 ELSE MIN_GAIN_TRIGGER_FRAC_QUOTE
        min_gain_static == RMul(anchor, min_gain_trigger_frac)
        min_gain_fee_buffer == RMul(anchor, RAdd(FEE, BUFFER))
        min_gain_donchian ==
            IF regime = "BASE"
            THEN IF donchian_width = NaN THEN NaN
                 ELSE RMul(RMul(bal[BASE_ASSET], donchian_width), DONCHIAN_GAIN_MULTIPLIER)
            ELSE IF donchian_width # NaN /\ RGt(ask, Zero)
                    /\ RGt(RSub(ask, donchian_width), Zero)
                 THEN RDiv(RMul(RMul(bal[QUOTE_ASSET], donchian_width), DONCHIAN_GAIN_MULTIPLIER),
                           RMul(ask, RSub(ask, donchian_width)))
                 ELSE Zero
    IN  PyMax3(min_gain_static, min_gain_fee_buffer, min_gain_donchian)

\* variant of the trailing math without the floor max(MIN_FACTOR, ...), used
\* to test the sensitivity of C29
TrailingMath_NoFloor(s, current_value, gain_scale_frac) ==
    LET anchor == IF s.anchor_value # None THEN s.anchor_value ELSE current_value
        high == IF s.high_value # None THEN s.high_value ELSE anchor
        gain == RSub(high, anchor)
        drawdown == RSub(high, current_value)
        gain_scale == RMul(anchor, gain_scale_frac)
        raised == \/ gain_scale = Zero
                  \/ RAdd(One, RDiv(gain, gain_scale)) = Zero
        callback_factor == IF raised THEN None
                           ELSE RDiv(START_FACTOR, RAdd(One, RDiv(gain, gain_scale)))
        callback == IF raised THEN None ELSE RMul(gain, callback_factor)
    IN  [anchor |-> anchor, high |-> high, gain |-> gain, drawdown |-> drawdown,
         gain_scale |-> gain_scale, raised |-> raised,
         callback_factor |-> callback_factor, callback |-> callback]

\* 7. gain / drawdown / callback; `raised` is the ZeroDivisionError of
\* gain / gain_scale or START_FACTOR / (1 + gain / gain_scale)
TrailingMath(s, current_value, gain_scale_frac) ==
    LET anchor == IF s.anchor_value # None THEN s.anchor_value ELSE current_value
        high == IF s.high_value # None THEN s.high_value ELSE anchor
        gain == RSub(high, anchor)
        drawdown == RSub(high, current_value)
        gain_scale == RMul(anchor, gain_scale_frac)
        raised == \/ gain_scale = Zero
                  \/ RAdd(One, RDiv(gain, gain_scale)) = Zero
        callback_factor == IF raised THEN None
                           ELSE RMax(MIN_FACTOR,
                                     RDiv(START_FACTOR, RAdd(One, RDiv(gain, gain_scale))))
        callback == IF raised THEN None ELSE RMul(gain, callback_factor)
    IN  [anchor |-> anchor, high |-> high, gain |-> gain, drawdown |-> drawdown,
         gain_scale |-> gain_scale, raised |-> raised,
         callback_factor |-> callback_factor, callback |-> callback]

\* variant of the high water update that follows the current value down as
\* well as up, used to test the sensitivity of C13
HighWaterUpdate_Follow(s, current_value) == [s EXCEPT !.high_value = current_value]

\* high water update: `if current_value > (state.high_value or 0)`
HighWaterUpdate(s, current_value) ==
    LET hv == IF s.high_value = None \/ s.high_value = Zero THEN Zero ELSE s.high_value
    IN  IF RGt(current_value, hv) THEN [s EXCEPT !.high_value = current_value] ELSE s

\* variant of the trigger with a strict comparison, used to test the
\* sensitivity of C5 at the exact threshold
HardStopTrigger_Strict(s, regime, current_value, anchor) ==
    IF RGt(value_drop_frac(current_value, anchor), HARD_STOP_THRESHOLD_FRAC)
       /\ ~s.donchian_gate_active
    THEN [s EXCEPT !.donchian_gate_active = TRUE,
                   !.last_donchian_regime = regime,
                   !.hard_stop_armed = TRUE]
    ELSE s

\* variant of the trigger without the `if not state.donchian_gate_active`
\* guard, used to test the sensitivity of C6
HardStopTrigger_Unguarded(s, regime, current_value, anchor) ==
    IF RGe(value_drop_frac(current_value, anchor), HARD_STOP_THRESHOLD_FRAC)
    THEN [s EXCEPT !.donchian_gate_active = TRUE,
                   !.last_donchian_regime = regime,
                   !.hard_stop_armed = TRUE]
    ELSE s

\* variant of the trigger that does not record the regime of the gate, used
\* to test the sensitivity of C40
HardStopTrigger_NoRegime(s, regime, current_value, anchor) ==
    IF RGe(value_drop_frac(current_value, anchor), HARD_STOP_THRESHOLD_FRAC)
       /\ ~s.donchian_gate_active
    THEN [s EXCEPT !.donchian_gate_active = TRUE,
                   !.hard_stop_armed = TRUE]
    ELSE s

\* 8.1 Donchian hard stop trigger
HardStopTrigger(s, regime, current_value, anchor) ==
    IF RGe(value_drop_frac(current_value, anchor), HARD_STOP_THRESHOLD_FRAC)
       /\ ~s.donchian_gate_active
    THEN [s EXCEPT !.donchian_gate_active = TRUE,
                   !.last_donchian_regime = regime,
                   !.hard_stop_armed = TRUE]
    ELSE s

\* 8.2 BASE regime: arm the persistent drain while the gate is up
HardStopArmBase(s, bal, regime, bid) ==
    IF /\ regime = "BASE"
       /\ s.donchian_gate_active
       /\ RGe(bal.total[BASE_ASSET], MIN_QTY)
       /\ RGe(RMul(bal.total[BASE_ASSET], bid), MIN_NOTIONAL)
    THEN [s EXCEPT !.hard_stop_armed = TRUE]
    ELSE s

\* variant of the hard-stop order block that sends the order without the
\* test of the minimums, used to test the sensitivity of C7
HardStopOrderBlock_NoMinimums(s, bal, regime, bid) ==
    IF s.hard_stop_armed /\ regime = "BASE"
    THEN [state |-> s,
          sent |-> <<order_replace("SELL", bid, clip(bal.total[BASE_ASSET], LOT_SIZE),
                                   "HARD_STOP_SELL", "HARD_STOP_SELL")>>]
    ELSE IF /\ regime = "QUOTE"
            /\ s.donchian_gate_active
            /\ RGe(bal.total[QUOTE_ASSET], MIN_NOTIONAL)
         THEN [state |-> [s EXCEPT !.hard_stop_armed = TRUE], sent |-> <<>>]
         ELSE [state |-> s, sent |-> <<>>]

\* 8.2/8.3 `if state.hard_stop_armed and regime == "BASE": ... elif ...`
HardStopOrderBlock(s, bal, regime, bid) ==
    IF s.hard_stop_armed /\ regime = "BASE"
    THEN LET qty == clip(bal.total[BASE_ASSET], LOT_SIZE)
             notional == RMul(qty, bid)
         IN  [state |-> s,
              sent |-> IF RGe(qty, MIN_QTY) /\ RGe(notional, MIN_NOTIONAL)
                       THEN <<order_replace("SELL", bid, qty, "HARD_STOP_SELL", "HARD_STOP_SELL")>>
                       ELSE <<>>]
    ELSE IF /\ regime = "QUOTE"
            /\ s.donchian_gate_active
            /\ RGe(bal.total[QUOTE_ASSET], MIN_NOTIONAL)
         THEN [state |-> [s EXCEPT !.hard_stop_armed = TRUE], sent |-> <<>>]
         ELSE [state |-> s, sent |-> <<>>]

\* variant of the maker-exit block that ignores skip_trading, used to test
\* the sensitivity of C8
MakerExitBlock_NoSkip(s, bal, skip_trading, regime, m, min_gain_for_trigger, bid, ask) ==
    LET arm == ~s.maker_exit_armed /\ s.manual_exit_triggered
        s1 == IF arm
              THEN [s EXCEPT !.maker_exit_armed = TRUE, !.manual_exit_triggered = FALSE]
              ELSE s
        side == IF regime = "QUOTE" THEN "BUY" ELSE "SELL"
        qty == IF side = "BUY"
               THEN clip(RDiv(bal.total[QUOTE_ASSET], ask), LOT_SIZE)
               ELSE clip(bal.total[BASE_ASSET], LOT_SIZE)
        price == IF side = "BUY" THEN ask ELSE bid
    IN  [state |-> s1,
         sent |-> IF s1.maker_exit_armed /\ RGe(qty, MIN_QTY) /\ RGe(RMul(qty, price), MIN_NOTIONAL)
                  THEN <<order_replace(side, price, qty, side, side)>>
                  ELSE <<>>]

\* variant of the maker-exit block that arms on the gain alone, without the
\* drawdown test, used to test the sensitivity of C11
MakerExitBlock_NoDrawdown(s, bal, skip_trading, regime, m, min_gain_for_trigger, bid, ask) ==
    IF skip_trading THEN [state |-> s, sent |-> <<>>]
    ELSE
    LET arm == /\ ~s.maker_exit_armed
               /\ (RGt(m.gain, min_gain_for_trigger) \/ s.manual_exit_triggered)
        s1 == IF arm
              THEN [s EXCEPT !.maker_exit_armed = TRUE, !.manual_exit_triggered = FALSE]
              ELSE s
        side == IF regime = "QUOTE" THEN "BUY" ELSE "SELL"
        qty == IF side = "BUY"
               THEN clip(RDiv(bal.total[QUOTE_ASSET], ask), LOT_SIZE)
               ELSE clip(bal.total[BASE_ASSET], LOT_SIZE)
        price == IF side = "BUY" THEN ask ELSE bid
    IN  [state |-> s1,
         sent |-> IF s1.maker_exit_armed /\ RGe(qty, MIN_QTY) /\ RGe(RMul(qty, price), MIN_NOTIONAL)
                  THEN <<order_replace(side, price, qty, side, side)>>
                  ELSE <<>>]

\* variant of the maker-exit block that sends the order without the test of
\* the minimums, used to test the sensitivity of C12
MakerExitBlock_NoMinimums(s, bal, skip_trading, regime, m, min_gain_for_trigger, bid, ask) ==
    IF skip_trading THEN [state |-> s, sent |-> <<>>]
    ELSE
    LET arm == /\ ~s.maker_exit_armed
               /\ \/ (RGt(m.gain, min_gain_for_trigger) /\ RGe(m.drawdown, m.callback))
                  \/ s.manual_exit_triggered
        s1 == IF arm
              THEN [s EXCEPT !.maker_exit_armed = TRUE, !.manual_exit_triggered = FALSE]
              ELSE s
        side == IF regime = "QUOTE" THEN "BUY" ELSE "SELL"
        qty == IF side = "BUY"
               THEN clip(RDiv(bal.total[QUOTE_ASSET], ask), LOT_SIZE)
               ELSE clip(bal.total[BASE_ASSET], LOT_SIZE)
        price == IF side = "BUY" THEN ask ELSE bid
    IN  [state |-> s1,
         sent |-> IF s1.maker_exit_armed
                  THEN <<order_replace(side, price, qty, side, side)>>
                  ELSE <<>>]

\* variant of the maker-exit block that re-evaluates the arming condition in
\* every iteration instead of keeping maker_exit_armed, used to test the
\* sensitivity of C36
MakerExitBlock_NotPersistent(s, bal, skip_trading, regime, m, min_gain_for_trigger, bid, ask) ==
    IF skip_trading THEN [state |-> s, sent |-> <<>>]
    ELSE
    LET arm == \/ (RGt(m.gain, min_gain_for_trigger) /\ RGe(m.drawdown, m.callback))
               \/ s.manual_exit_triggered
        s1 == [s EXCEPT !.maker_exit_armed = arm, !.manual_exit_triggered = FALSE]
        side == IF regime = "QUOTE" THEN "BUY" ELSE "SELL"
        qty == IF side = "BUY"
               THEN clip(RDiv(bal.total[QUOTE_ASSET], ask), LOT_SIZE)
               ELSE clip(bal.total[BASE_ASSET], LOT_SIZE)
        price == IF side = "BUY" THEN ask ELSE bid
    IN  [state |-> s1,
         sent |-> IF s1.maker_exit_armed /\ RGe(qty, MIN_QTY) /\ RGe(RMul(qty, price), MIN_NOTIONAL)
                  THEN <<order_replace(side, price, qty, side, side)>>
                  ELSE <<>>]

\* variant of the maker-exit block that clears the one-shot flag in every
\* ungated iteration that finds it set, armed already or not, used to test
\* the sensitivity of C37
MakerExitBlock_EagerReset(s, bal, skip_trading, regime, m, min_gain_for_trigger, bid, ask) ==
    IF skip_trading THEN [state |-> s, sent |-> <<>>]
    ELSE
    LET arm == \/ s.maker_exit_armed
               \/ (RGt(m.gain, min_gain_for_trigger) /\ RGe(m.drawdown, m.callback))
               \/ s.manual_exit_triggered
        s1 == [s EXCEPT !.maker_exit_armed = arm, !.manual_exit_triggered = FALSE]
        side == IF regime = "QUOTE" THEN "BUY" ELSE "SELL"
        qty == IF side = "BUY"
               THEN clip(RDiv(bal.total[QUOTE_ASSET], ask), LOT_SIZE)
               ELSE clip(bal.total[BASE_ASSET], LOT_SIZE)
        price == IF side = "BUY" THEN ask ELSE bid
    IN  [state |-> s1,
         sent |-> IF s1.maker_exit_armed /\ RGe(qty, MIN_QTY) /\ RGe(RMul(qty, price), MIN_NOTIONAL)
                  THEN <<order_replace(side, price, qty, side, side)>>
                  ELSE <<>>]

\* 8.4 normal trading: persistent maker exit on callback or hotkey
MakerExitBlock(s, bal, skip_trading, regime, m, min_gain_for_trigger, bid, ask) ==
    IF skip_trading THEN [state |-> s, sent |-> <<>>]
    ELSE
    LET arm == /\ ~s.maker_exit_armed
               /\ \/ (RGt(m.gain, min_gain_for_trigger) /\ RGe(m.drawdown, m.callback))
                  \/ s.manual_exit_triggered
        s1 == IF arm
              THEN [s EXCEPT !.maker_exit_armed = TRUE, !.manual_exit_triggered = FALSE]
              ELSE s
        side == IF regime = "QUOTE" THEN "BUY" ELSE "SELL"
        qty == IF side = "BUY"
               THEN clip(RDiv(bal.total[QUOTE_ASSET], ask), LOT_SIZE)
               ELSE clip(bal.total[BASE_ASSET], LOT_SIZE)
        price == IF side = "BUY" THEN ask ELSE bid
        client_id == side
        notional == RMul(qty, price)
    IN  [state |-> s1,
         sent |-> IF s1.maker_exit_armed /\ RGe(qty, MIN_QTY) /\ RGe(notional, MIN_NOTIONAL)
                  THEN <<order_replace(side, price, qty, client_id, client_id)>>
                  ELSE <<>>]


(***************************************************************************)
(* State                                                                   *)
(***************************************************************************)
VARIABLES
    account_snapshot,   \* asset -> [free, locked, total], written by account_ws_receiver
    book_snapshot,      \* [bid_price, ask_price], written by stream_bookticker_shared
    kline_snapshot,     \* the last "k" payload [T, c, x], written by stream_kline_shared
    rolling_klines,     \* the rolling window of the running session
    state,              \* the TrailingState of the running session
    orders,             \* payloads the latest step sent to the order gateway
    last,               \* what the latest step read and computed, if it was a loop
                        \* iteration (outcome "none" after any other step)
    pc,                 \* "running": in the loop; "failed": an exception left
                        \* main_trading_loop; "exited": the process has ended
    tasks,              \* listener -> number of its tasks that are running
    ws_open,            \* the API websocket of the session is connected
    stream              \* a market stream function: its place, retry_count and what it has done

vars == <<account_snapshot, book_snapshot, kline_snapshot, rolling_klines, state, orders, last, pc,
          tasks, ws_open, stream>>

\* the listeners main_trading_loop starts with asyncio.create_task
Listeners == {"account", "book", "kline"}

\* one task per listener: `_account_task`, `_book_task`, `_kline_task`
SessionTasks == [l \in Listeners |-> 1]

\* stream_bookticker_shared / stream_kline_shared as they are entered:
\* retry_count = 0, about to connect.  `log` lists what has happened to the
\* function so far and `sleeps` the delays it has slept, `raised` the
\* exception that has left it.
StreamStart ==
    [pc |-> "connect", retry_count |-> 0, log |-> <<>>, sleeps |-> <<>>, raised |-> None]

(***************************************************************************)
(* Bounds and the values the feeds deliver                                 *)
(***************************************************************************)
\* close_time of the newest bar the kline feed delivers; the fetched history
\* ends with the bar of close_time ROLLING_KLINES_MAXLEN, which is still forming
MaxT == 4

\* bookTicker messages: ("b", "a") strings
PriceTicks ==
    { <<Dec8(199, 0), Dec8(200, 0)>>,
      <<Dec8(200, 0), Dec8(201, 0)>>,
      <<Dec8(203, 0), Dec8(204, 0)>> }

\* kline close strings
CloseStrs == { Dec8(199, 0), Dec8(203, 0) }

\* outboundAccountPosition "f" strings per asset; "l" is "0.00000000"
FreeStrs == [a \in Assets |-> IF a = BASE_ASSET THEN { Dec8(0, 0), Dec8(1, 0) }
                                               ELSE { Dec8(0, 0), Dec8(100, 0) }]
LockedStrs == { Dec8(0, 0) }

Balance(f, l) ==
    [free |-> float_str(f), locked |-> float_str(l),
     total |-> RAdd(float_str(f), float_str(l))]

\* the account snapshots the start-up can leave, given the "f" strings
AccountSnapshots(frees) ==
    { [a \in Assets |-> Balance(fs[a], l)] :
        fs \in { g \in [Assets -> UNION { frees[a] : a \in Assets }] :
                   \A a \in Assets : g[a] \in frees[a] },
        l \in LockedStrs }

BookSnapshots ==
    { [bid_price |-> float_str(p[1]), ask_price |-> float_str(p[2])] : p \in PriceTicks }

\* normalize_historical_klines: every historical bar has x = True
HistoryClose(i) == IF i % 2 = 1 THEN Dec8(199, 0) ELSE Dec8(203, 0)

Histories ==
    { [i \in 1..ROLLING_KLINES_MAXLEN |-> [T |-> i, c |-> HistoryClose(i), x |-> TRUE]] }

\* "k" payloads of the kline stream: the bar that is forming.  The bar that
\* was forming at start-up trades on either side of the channel; the bars
\* that open later trade at 203.
KlineMsgs(fromT) ==
    { k \in [T : fromT..MaxT, c : CloseStrs, x : {FALSE}] :
        k.T > ROLLING_KLINES_MAXLEN => k.c = Dec8(203, 0) }

NoObs ==
    [outcome |-> "none", pre |-> TrailingState, bal |-> None, bid |-> None, ask |-> None,
     last_close |-> None, last_mid |-> None, donchian_width |-> None,
     gate_reset |-> FALSE, skip_trading |-> FALSE,
     prev_regime |-> None, regime |-> None, current_value |-> None,
     min_gain_for_trigger |-> None, flip |-> FALSE, m |-> None, window |-> None,
     notify |-> None]

(***************************************************************************)
(* One iteration of `while True` in main_trading_loop                       *)
(***************************************************************************)
LoopIteration(st, rolling, acct, book, kline) ==
    LET balances == get_balance_from_snapshot(acct)
        s0 == st
        bid == book.bid_price
        ask == book.ask_price
    IN
    IF bid = None \/ ask = None
    THEN [state |-> s0, rolling_klines |-> rolling, sent |-> <<>>, pc |-> "running",
          obs |-> [NoObs EXCEPT !.outcome = "no_book", !.pre = st, !.bal = balances,
                                !.window = rolling]]
    ELSE
    IF rolling # <<>> /\ "T" \notin DOMAIN kline
    THEN \* current_kline["T"]: KeyError
         [state |-> s0, rolling_klines |-> rolling, sent |-> <<>>, pc |-> "failed",
          obs |-> [NoObs EXCEPT !.outcome = "key_error", !.pre = st, !.bal = balances,
                                !.bid = bid, !.ask = ask, !.window = rolling]]
    ELSE
    LET current_kline == kline
        rk == RollingKlinesUpdate(rolling, current_kline)
        ch == compute_donchian_channels(rk, DONCHIAN_WINDOW, DONCHIAN_SHIFT)
        last_upper == ch.upper[Len(rk)]
        last_lower == ch.lower[Len(rk)]
        last_mid == ch.mid[Len(rk)]
        donchian_width == NaNSub(last_upper, last_lower)
        last_close == float_str(current_kline.c)
        s1 == DonchianGateReset(s0, balances, last_close, last_mid, bid, ask)
        skip_trading == s1.donchian_gate_active
        prev_regime == s1.current_regime
        regime == detect_regime(balances.total, bid, ask)
        s2 == [s1 EXCEPT !.current_regime = regime]
        obs2 == [NoObs EXCEPT !.pre = st, !.bal = balances, !.bid = bid, !.ask = ask,
                              !.last_close = last_close, !.last_mid = last_mid,
                              !.donchian_width = donchian_width,
                              !.gate_reset = (s0.donchian_gate_active /\ ~s1.donchian_gate_active),
                              !.skip_trading = skip_trading,
                              !.prev_regime = prev_regime, !.regime = regime]
    IN
    IF regime = None
    THEN [state |-> s2, rolling_klines |-> rk, sent |-> <<>>, pc |-> "running",
          obs |-> [obs2 EXCEPT !.outcome = "no_regime"]]
    ELSE
    LET current_value == CurrentValue(regime, balances.total, bid, ask)
        anchor0 == IF s2.anchor_value # None THEN s2.anchor_value ELSE current_value
        min_gain_for_trigger ==
            MinGainForTrigger(regime, anchor0, balances.total, donchian_width, ask)
        flip == regime # prev_regime /\ regime # None
        s3 == IF flip THEN reset_for_regime_flip(s2, current_value) ELSE s2
        m == TrailingMath(s3, current_value, GainScaleFrac(regime))
        obs3 == [obs2 EXCEPT !.current_value = current_value,
                             !.min_gain_for_trigger = min_gain_for_trigger,
                             !.flip = flip, !.m = m]
    IN
    IF m.raised
    THEN [state |-> s3, rolling_klines |-> rk, sent |-> <<>>, pc |-> "failed",
          obs |-> [obs3 EXCEPT !.outcome = "raised"]]
    ELSE
    LET s4 == HighWaterUpdate(s3, current_value)
        s5 == HardStopTrigger(s4, regime, current_value, m.anchor)
        s6 == HardStopArmBase(s5, balances, regime, bid)
        hs == HardStopOrderBlock(s6, balances, regime, bid)
        mx == MakerExitBlock(hs.state, balances, skip_trading, regime, m, min_gain_for_trigger, bid, ask)
    IN  [state |-> mx.state, rolling_klines |-> rk, sent |-> hs.sent \o mx.sent,
         pc |-> "running", obs |-> [obs3 EXCEPT !.outcome = "done"],
         at_hard_stop |-> hs.state]

(***************************************************************************)
(* Initial state: main_trading_loop has finished its start-up (history     *)
(* fetched, the three snapshots populated, TrailingState constructed)       *)
(***************************************************************************)
Init ==
    /\ account_snapshot \in AccountSnapshots(FreeStrs)
    /\ book_snapshot \in BookSnapshots
    /\ kline_snapshot \in KlineMsgs(ROLLING_KLINES_MAXLEN)
    /\ rolling_klines \in Histories
    /\ state = TrailingState
    /\ orders = <<>>
    /\ last = NoObs
    /\ pc = "running"
    /\ tasks = SessionTasks
    /\ ws_open = TRUE
    /\ stream = StreamStart

(***************************************************************************)
(* Actions                                                                 *)
(***************************************************************************)
\* the environment of a process started without a .env file: no TELEGRAM_*
\* variable is set
NoTelegram == [token |-> None, chat |-> None, group1 |-> None, group2 |-> None]

\* the group chats broadcast_telegram_message(msg) sends to
NumChats(env) ==
    (IF Falsy(env.group1) THEN 0 ELSE 1) + (IF Falsy(env.group2) THEN 0 ELSE 1)

\* the state main_trading_loop has built when it calls
\* broadcast_telegram_message: gate reset, regime and flip reset are done
AfterFlipBlock(obs) ==
    reset_for_regime_flip(
        [DonchianGateReset(obs.pre, obs.bal, obs.last_close, obs.last_mid, obs.bid, obs.ask)
            EXCEPT !.current_regime = obs.regime],
        obs.current_value)

\* main_trading_loop: one loop iteration of a process whose TELEGRAM_*
\* environment is one of envs.  The flip block calls
\* broadcast_telegram_message(msg) after the reset and before the trading
\* steps; an exception that left it would end the iteration there.
TickIn(envs) ==
    /\ pc = "running"
    /\ \E r \in {LoopIteration(state, rolling_klines, account_snapshot, book_snapshot,
                              kline_snapshot)} :
       \E env \in (IF r.obs.flip THEN envs ELSE {NoTelegram}) :
       \E https \in [1..(IF r.obs.flip THEN NumChats(env) ELSE 0) -> HttpOutcomes] :
           IF r.obs.flip /\ broadcast_telegram_message(env, https).raised
           THEN /\ state' = AfterFlipBlock(r.obs)
                /\ rolling_klines' = r.rolling_klines
                /\ orders' = <<>>
                /\ last' = [r.obs EXCEPT !.outcome = "notify_raised",
                                         !.notify = broadcast_telegram_message(env, https)]
                /\ pc' = "failed"
           ELSE
           LET obs == IF r.obs.flip
                      THEN [r.obs EXCEPT !.notify = broadcast_telegram_message(env, https)]
                      ELSE r.obs
           IN
           IF ~ws_open /\ r.sent # <<>>
           THEN \* the first `await order_replace(ws, ...)` of the iteration:
                \* ws.send on a closed connection raises ConnectionClosed
                /\ state' = IF r.sent[1].newClientOrderId = "HARD_STOP_SELL"
                            THEN r.at_hard_stop
                            ELSE r.state
                /\ rolling_klines' = r.rolling_klines
                /\ orders' = <<>>
                /\ last' = [obs EXCEPT !.outcome = "send_failed"]
                /\ pc' = "failed"
           ELSE /\ state' = r.state
                /\ rolling_klines' = r.rolling_klines
                /\ orders' = r.sent
                /\ last' = obs
                /\ pc' = r.pc
    /\ UNCHANGED <<account_snapshot, book_snapshot, kline_snapshot, tasks, ws_open, stream>>

\* main_trading_loop: one loop iteration, Telegram not configured
Tick == TickIn({NoTelegram})

\* account_ws_receiver / parse_account_balance_event: one
\* outboundAccountPosition message with entries for the assets in B
AccountPosition(frees) ==
    /\ pc = "running"
    /\ ws_open
    /\ tasks["account"] > 0
    /\ \E B \in (SUBSET Assets) \ {{}} :
       \E f \in [B -> UNION { frees[a] : a \in Assets }] :
       \E l \in LockedStrs :
          /\ \A a \in B : f[a] \in frees[a]
          /\ account_snapshot' =
                [a \in Assets |-> IF a \in B THEN Balance(f[a], l) ELSE account_snapshot[a]]
    /\ orders' = <<>>
    /\ last' = NoObs
    /\ UNCHANGED <<book_snapshot, kline_snapshot, rolling_klines, state, pc, tasks, ws_open, stream>>

\* stream_bookticker_shared: one bookTicker message
BookTicker ==
    /\ pc = "running"
    /\ tasks["book"] > 0
    /\ \E p \in PriceTicks :
          book_snapshot' = [bid_price |-> float_str(p[1]), ask_price |-> float_str(p[2])]
    /\ orders' = <<>>
    /\ last' = NoObs
    /\ UNCHANGED <<account_snapshot, kline_snapshot, rolling_klines, state, pc, tasks, ws_open, stream>>

\* the close time of the bar the kline stream is at: that of the snapshot, or
\* of the window's last bar when the snapshot holds no bar
FeedTime == IF "T" \in DOMAIN kline_snapshot
            THEN kline_snapshot.T
            ELSE rolling_klines[Len(rolling_klines)].T

\* stream_kline_shared: one kline message; clear() and update(k) run without
\* an await between them
KlineMessage ==
    /\ pc = "running"
    /\ tasks["kline"] > 0
    /\ \E k \in KlineMsgs(FeedTime) : kline_snapshot' = k
    /\ orders' = <<>>
    /\ last' = NoObs
    /\ UNCHANGED <<account_snapshot, book_snapshot, rolling_klines, state, pc, tasks, ws_open, stream>>

\* install_hotkey_listener / stdin_reader_thread: the operator types the hotkey
Hotkey ==
    /\ pc = "running"
    /\ state' = [state EXCEPT !.manual_exit_triggered = TRUE]
    /\ orders' = <<>>
    /\ last' = NoObs
    /\ UNCHANGED <<account_snapshot, book_snapshot, kline_snapshot, rolling_klines, pc, tasks,
                   ws_open, stream>>

\* one trading session: main_trading_loop on a connection that stays up, from
\* the end of its start-up until an exception leaves it (the sessions that
\* run_with_reconnect starts after that are SpecSession's)
Next ==
    \/ Tick
    \/ AccountPosition(FreeStrs)
    \/ BookTicker
    \/ KlineMessage
    \/ Hotkey

Spec == Init /\ [][Next]_vars


(***************************************************************************)
(* Vocabulary of the properties                                            *)
(***************************************************************************)
\* the latest step was a loop iteration that ran to its end
TickDone == last.outcome = "done"

HardStopSent == { i \in 1..Len(orders) : orders[i].newClientOrderId = "HARD_STOP_SELL" }
MakerSent == { i \in 1..Len(orders) : orders[i].newClientOrderId \in {"BUY", "SELL"} }

\* the latest iteration set maker_exit_armed
MakerArmedNow == ~last.pre.maker_exit_armed /\ state.maker_exit_armed

\* close crossed the channel midpoint in the direction that favours `regime`
MidCross(regime, close, mid) ==
    /\ mid # NaN
    /\ \/ (regime = "BASE" /\ Over(close, mid) > Over(mid, close))
       \/ (regime = "QUOTE" /\ Over(close, mid) < Over(mid, close))

\* (anchor - current_value) / anchor >= HARD_STOP_THRESHOLD_FRAC, anchor > 0
DropReached(anchor, current_value) ==
    /\ anchor[1] > 0
    /\ RGe(RSub(anchor, current_value), RMul(HARD_STOP_THRESHOLD_FRAC, anchor))

(***************************************************************************)
(* C1 - at most one order per tick                                         *)
(***************************************************************************)
\* C1: a loop iteration submits at most one order to the gateway; it never
\* submits a HARD_STOP_SELL order together with a maker-exit order.
C1_AtMostOneOrderPerTick ==
    /\ Len(orders) <= 1
    /\ ~(HardStopSent # {} /\ MakerSent # {})

(***************************************************************************)
(* C2 - maker exit suppressed while the gate is ACTIVE                     *)
(***************************************************************************)
\* C2: whenever a loop iteration arms the maker exit or submits a maker-exit
\* order (client id BUY or SELL), the gate is INACTIVE at that point of the
\* iteration (nothing changes the gate after the maker-exit block).
C2_MakerExitOnlyWhileGateInactive ==
    (TickDone /\ (MakerArmedNow \/ MakerSent # {})) => ~state.donchian_gate_active

(***************************************************************************)
(* C3 - the gate is released by the mid cross of the recorded regime only   *)
(***************************************************************************)
\* C3: in every loop iteration that gets past the order-book check, the gate
\* goes ACTIVE -> INACTIVE if and only if it was ACTIVE and the iteration's
\* last close is beyond the channel mid on the side of the recorded trigger
\* regime (close > mid for BASE, close < mid for QUOTE); in every other
\* iteration an ACTIVE gate keeps its recorded regime.
C3_GateResetIffMidCross ==
    last.outcome \in {"no_regime", "raised", "done"} =>
        LET cross == /\ last.pre.donchian_gate_active
                     /\ MidCross(last.pre.last_donchian_regime, last.last_close, last.last_mid)
        IN  /\ last.gate_reset <=> cross
            /\ (last.pre.donchian_gate_active /\ ~cross) =>
                  /\ state.donchian_gate_active
                  /\ state.last_donchian_regime = last.pre.last_donchian_regime
            /\ (last.pre.donchian_gate_active /\ ~state.donchian_gate_active) => cross

\* C3 witness: an ACTIVE gate was released while the regime detected in the
\* same iteration differs from the recorded one
C3_Witness ==
    /\ last.outcome = "done"
    /\ last.gate_reset
    /\ ~state.donchian_gate_active
    /\ last.pre.last_donchian_regime = "BASE"
    /\ last.regime = "QUOTE"

(***************************************************************************)
(* C4 - re-anchoring on gate reset                                         *)
(***************************************************************************)
\* C4: in the iteration where the gate resets, anchor_value = high_value =
\* the current_value computed in that iteration for the detected regime.
C4_ResetAnchorsAtCurrentValue ==
    (TickDone /\ last.gate_reset) =>
        /\ state.anchor_value = last.current_value
        /\ state.high_value = last.current_value

(***************************************************************************)
(* C5 - INACTIVE -> ACTIVE at the drop threshold                            *)
(***************************************************************************)
\* C5: in a loop iteration with regime BASE or QUOTE whose gate is INACTIVE
\* when the trigger is evaluated, the gate ends ACTIVE if and only if
\* (anchor - current_value) / anchor >= HARD_STOP_THRESHOLD_FRAC; it then
\* records the iteration's regime and hard_stop_armed is set; otherwise the
\* gate stays INACTIVE (also when the iteration dies on the zero anchor).
C5_TriggerIffDropReached ==
    /\ (TickDone /\ ~last.skip_trading) =>
          /\ state.donchian_gate_active <=> DropReached(last.m.anchor, last.current_value)
          /\ state.donchian_gate_active =>
                /\ state.last_donchian_regime = last.regime
                /\ state.hard_stop_armed
          /\ ~state.donchian_gate_active => state.last_donchian_regime = None
    /\ (last.outcome = "raised" /\ ~last.skip_trading) => ~state.donchian_gate_active

\* C5 witness: the gate fired at a drop of exactly HARD_STOP_THRESHOLD_FRAC
C5_Witness ==
    /\ TickDone
    /\ ~last.pre.donchian_gate_active
    /\ state.donchian_gate_active
    /\ RSub(last.m.anchor, last.current_value) = RMul(HARD_STOP_THRESHOLD_FRAC, last.m.anchor)

(***************************************************************************)
(* C6 - the trigger is idempotent                                          *)
(***************************************************************************)
\* C6: a loop iteration whose gate is ACTIVE when the trigger is evaluated and
\* whose drop reaches the threshold leaves the gate ACTIVE with the recorded
\* trigger regime it had, whatever the iteration's regime is.
C6_TriggerIdempotent ==
    (TickDone /\ last.skip_trading /\ DropReached(last.m.anchor, last.current_value)) =>
        /\ state.donchian_gate_active
        /\ state.last_donchian_regime = last.pre.last_donchian_regime

\* C6 witness: the trigger condition held again under an ACTIVE gate whose
\* recorded regime differs from the iteration's regime
C6_Witness ==
    /\ TickDone
    /\ last.skip_trading
    /\ DropReached(last.m.anchor, last.current_value)
    /\ last.pre.last_donchian_regime # last.regime
    /\ state.last_donchian_regime = last.pre.last_donchian_regime

(***************************************************************************)
(* C8 - QUOTE under an ACTIVE gate is a pause                               *)
(***************************************************************************)
\* C8: a loop iteration that starts with the gate ACTIVE, does not reset it
\* and detects regime QUOTE submits no order; and an order with the client id
\* HARD_STOP_SELL is never a BUY.
C8_QuotePauseNoOrder ==
    /\ (TickDone /\ last.pre.donchian_gate_active /\ ~last.gate_reset /\ last.regime = "QUOTE")
          => orders = <<>>
    /\ \A i \in HardStopSent : orders[i].side = "SELL"

\* C8 witness: such an iteration ran with the operator's manual exit pending
C8_Witness ==
    /\ TickDone
    /\ last.pre.donchian_gate_active
    /\ ~last.gate_reset
    /\ last.regime = "QUOTE"
    /\ last.pre.manual_exit_triggered
    /\ orders = <<>>

(***************************************************************************)
(* C10 - which regime changes reset the trailing state                      *)
(***************************************************************************)
\* C10: a loop iteration that detects regime X right after an iteration that
\* detected no regime (NONE -> X) does not reset an anchor that was already
\* set, nor clear arm flags that were set.
C10_NoResetAfterNone ==
    (TickDone /\ last.prev_regime = None /\ last.pre.anchor_value # None /\ ~last.gate_reset) =>
        /\ state.anchor_value = last.pre.anchor_value
        /\ last.pre.hard_stop_armed => state.hard_stop_armed
        /\ last.pre.maker_exit_armed => state.maker_exit_armed

(***************************************************************************)
(* C9 - reset_for_regime_flip on every TrailingState                        *)
(***************************************************************************)
\* every assignment of the fields of a TrailingState over small domains;
\* i = 0 stands for None in anchor_value and high_value
FlipValue(i) == IF i = 0 THEN None
                ELSE IF i = 1 THEN Zero
                ELSE IF i = 2 THEN Rat(1, 2)
                ELSE IF i = 3 THEN Rat(199, 1)
                ELSE Rat(203, 1)

IsTrailingState(s) ==
    \E a \in 0..4, h \in 0..4, maker, hard, gate, manual \in BOOLEAN :
    \E cur, rec \in {None, "BASE", "QUOTE"} :
        s = [anchor_value |-> FlipValue(a),
             high_value |-> FlipValue(h),
             current_regime |-> cur,
             prev_regime |-> None,
             maker_exit_armed |-> maker,
             hard_stop_armed |-> hard,
             donchian_gate_active |-> gate,
             last_donchian_regime |-> rec,
             manual_exit_triggered |-> manual]

\* the arguments the reset is called with
FlipValues == { FlipValue(i) : i \in 1..4 }

InitFlip ==
    /\ account_snapshot \in AccountSnapshots([a \in Assets |-> { Dec8(0, 0) }])
    /\ book_snapshot \in { [bid_price |-> None, ask_price |-> None] }
    /\ kline_snapshot \in KlineMsgs(MaxT)
    /\ rolling_klines = <<>>
    /\ IsTrailingState(state)
    /\ orders = <<>>
    /\ last = NoObs
    /\ pc = "running"
    /\ tasks = SessionTasks
    /\ ws_open = TRUE
    /\ stream = StreamStart

\* state.reset_for_regime_flip(current_value) on the state as it is
ResetForRegimeFlip ==
    /\ \E current_value \in FlipValues :
          /\ state' = reset_for_regime_flip(state, current_value)
          /\ last' = [NoObs EXCEPT !.outcome = "flip", !.pre = state,
                                   !.current_value = current_value]
    /\ orders' = <<>>
    /\ UNCHANGED <<account_snapshot, book_snapshot, kline_snapshot, rolling_klines, pc, tasks,
                   ws_open, stream>>

NextFlip == ResetForRegimeFlip

SpecFlip == InitFlip /\ [][NextFlip]_vars

\* C9: after reset_for_regime_flip(new_value), anchor_value = high_value =
\* new_value and maker_exit_armed = hard_stop_armed = FALSE, whatever the
\* TrailingState was before; the other fields are as they were.
C9_FlipResetTotal ==
    last.outcome = "flip" =>
        /\ state.anchor_value = last.current_value
        /\ state.high_value = last.current_value
        /\ ~state.maker_exit_armed
        /\ ~state.hard_stop_armed
        /\ \A f \in {"current_regime", "prev_regime", "donchian_gate_active",
                     "last_donchian_regime", "manual_exit_triggered"} :
              state[f] = last.pre[f]

\* C9 witness: the reset ran on a state with anchor and high None and both
\* arm flags set
C9_Witness ==
    /\ last.outcome = "flip"
    /\ last.pre.anchor_value = None
    /\ last.pre.high_value = None
    /\ last.pre.maker_exit_armed
    /\ last.pre.hard_stop_armed
    /\ state.anchor_value = last.current_value

(***************************************************************************)
(* C7 - the persistent BASE drain                                          *)
(***************************************************************************)
\* "f" strings of a base balance that is being sold off: 1 ETH and a
\* remainder of 0.02464 ETH, which is worth 5.00192 at bid 203 but 4.99380
\* once floored to LOT_SIZE
DrainFreeStrs == [a \in Assets |-> IF a = BASE_ASSET
                                   THEN { Dec8(0, 2464000), Dec8(1, 0) }
                                   ELSE { Dec8(0, 0) }]

InitDrain ==
    /\ account_snapshot \in AccountSnapshots(DrainFreeStrs)
    /\ book_snapshot \in BookSnapshots
    /\ kline_snapshot \in KlineMsgs(ROLLING_KLINES_MAXLEN)
    /\ rolling_klines \in Histories
    /\ state = TrailingState
    /\ orders = <<>>
    /\ last = NoObs
    /\ pc = "running"
    /\ tasks = SessionTasks
    /\ ws_open = TRUE
    /\ stream = StreamStart

NextDrain ==
    \/ Tick
    \/ AccountPosition(DrainFreeStrs)
    \/ BookTicker
    \/ KlineMessage
    \/ Hotkey

SpecDrain == InitDrain /\ [][NextDrain]_vars

\* the base total floored to LOT_SIZE, as a loop iteration computes it
FlooredBase == clip(last.bal.total[BASE_ASSET], LOT_SIZE)

ArmedAtBlock == IF last.flip THEN FALSE ELSE last.pre.maker_exit_armed

\* gain > min_gain_for_trigger and drawdown >= callback in the latest iteration
CallbackHit ==
    /\ Over(last.m.gain, last.min_gain_for_trigger) > Over(last.min_gain_for_trigger, last.m.gain)
    /\ Over(last.m.drawdown, last.m.callback) >= Over(last.m.callback, last.m.drawdown)

\* C11: in a loop iteration that is not gated (skip_trading false) and finds
\* maker_exit_armed false, maker_exit_armed ends true if and only if
\* (gain > min_gain_for_trigger and drawdown >= callback) or
\* manual_exit_triggered is set; and when the iteration arms with the manual
\* flag set, the flag is false at the end of the iteration.
C11_ArmIffCallbackOrManual ==
    (TickDone /\ ~last.skip_trading /\ ~ArmedAtBlock) =>
        /\ state.maker_exit_armed <=> (CallbackHit \/ last.pre.manual_exit_triggered)
        /\ (state.maker_exit_armed /\ last.pre.manual_exit_triggered)
              => ~state.manual_exit_triggered

\* C11 witness: the maker exit was armed by the callback, with no manual flag
C11_Witness ==
    /\ TickDone
    /\ ~last.skip_trading
    /\ ~ArmedAtBlock
    /\ ~last.pre.manual_exit_triggered
    /\ CallbackHit
    /\ state.maker_exit_armed

(***************************************************************************)
(* C12 - contents of the maker-exit order                                   *)
(***************************************************************************)
\* "f" strings of an account whose quote balance is the bare minimum: 5 FDUSD
\* buy 0.0250 ETH at ask 200 (worth 5.00) but only 0.0248 ETH at ask 201
\* (worth 4.9848) and 0.0245 ETH at ask 204 (worth 4.9980)
MakerFreeStrs == [a \in Assets |-> IF a = BASE_ASSET
                                   THEN { Dec8(0, 0), Dec8(1, 0) }
                                   ELSE { Dec8(0, 0), Dec8(5, 0) }]

InitMaker ==
    /\ account_snapshot \in AccountSnapshots(MakerFreeStrs)
    /\ book_snapshot \in BookSnapshots
    /\ kline_snapshot \in KlineMsgs(ROLLING_KLINES_MAXLEN)
    /\ rolling_klines \in Histories
    /\ state = TrailingState
    /\ orders = <<>>
    /\ last = NoObs
    /\ pc = "running"
    /\ tasks = SessionTasks
    /\ ws_open = TRUE
    /\ stream = StreamStart

NextMaker ==
    \/ Tick
    \/ AccountPosition(MakerFreeStrs)
    \/ BookTicker
    \/ KlineMessage
    \/ Hotkey

SpecMaker == InitMaker /\ [][NextMaker]_vars

\* q is x floored to a whole number of lots
IsFlooredToLot(q, x) ==
    /\ Over(q, x) <= Over(x, q)
    /\ Over(RSub(x, q), LOT_SIZE) < Over(LOT_SIZE, RSub(x, q))
    /\ (q[1] * LOT_SIZE[2]) % (q[2] * LOT_SIZE[1]) = 0

\* what the maker exit of the latest iteration has to trade: the amount
\* before flooring and the price
ExitAmount == IF last.regime = "QUOTE"
              THEN RDiv(last.bal.total[QUOTE_ASSET], last.ask)
              ELSE last.bal.total[BASE_ASSET]
ExitPrice == IF last.regime = "QUOTE" THEN last.ask ELSE last.bid
ExitSide == IF last.regime = "QUOTE" THEN "BUY" ELSE "SELL"

\* the floored amount meets MIN_QTY and, at the price, MIN_NOTIONAL
ExitMeetsMinimums ==
    LET q == RMul(Rat(RTrunc(RDiv(ExitAmount, LOT_SIZE)), 1), LOT_SIZE)
    IN  /\ IsFlooredToLot(q, ExitAmount)
        /\ Over(q, MIN_QTY) >= Over(MIN_QTY, q)
        /\ RGe(RMul(q, ExitPrice), MIN_NOTIONAL)

StableRegimeTick == TickDone /\ last.regime = last.prev_regime

\* C13: across consecutive loop iterations with the same regime (BASE or
\* QUOTE) high_value never decreases, and after each of them high_value is at
\* least the iteration's current_value.
C13_HighWaterMonotone ==
    StableRegimeTick =>
        /\ state.high_value # None
        /\ Over(state.high_value, last.current_value) >= Over(last.current_value, state.high_value)
        /\ last.pre.high_value # None =>
              Over(state.high_value, last.pre.high_value)
                  >= Over(last.pre.high_value, state.high_value)

\* C13 outside the gate reset: across consecutive loop iterations with the
\* same regime high_value never decreases unless the later iteration resets
\* the Donchian gate (which re-anchors high_value), and after each of them
\* high_value is at least the iteration's current_value.
C13_MonotoneExceptGateReset ==
    StableRegimeTick =>
        /\ state.high_value # None
        /\ Over(state.high_value, last.current_value) >= Over(last.current_value, state.high_value)
        /\ (~last.gate_reset /\ last.pre.high_value # None) =>
              Over(state.high_value, last.pre.high_value)
                  >= Over(last.pre.high_value, state.high_value)

\* C13 witness: a stable-regime iteration without gate reset that raises the
\* high-water mark to a new current value
C13_Witness ==
    /\ StableRegimeTick
    /\ ~last.gate_reset
    /\ last.pre.high_value # None
    /\ state.high_value = last.current_value
    /\ Over(state.high_value, last.pre.high_value) > Over(last.pre.high_value, state.high_value)

(***************************************************************************)
(* The reconnect loop: sessions of main_trading_loop under                  *)
(* run_with_reconnect, with a connection that can drop and a kline stream   *)
(* that can deliver a message without a "k" payload                         *)
(***************************************************************************)
\* at most this many tasks of one listener
MaxListeners == 3

SessionFreeStrs == [a \in Assets |-> IF a = BASE_ASSET THEN { Dec8(1, 0) } ELSE { Dec8(0, 0) }]

InitSession ==
    /\ account_snapshot \in AccountSnapshots(SessionFreeStrs)
    /\ book_snapshot \in BookSnapshots
    /\ kline_snapshot \in KlineMsgs(ROLLING_KLINES_MAXLEN)
    /\ rolling_klines \in Histories
    /\ state = TrailingState
    /\ orders = <<>>
    /\ last = NoObs
    /\ pc = "running"
    /\ tasks = SessionTasks
    /\ ws_open = TRUE
    /\ stream = StreamStart

\* the API websocket drops; account_ws_receiver gets ConnectionClosed from
\* ws.recv() and leaves its loop
ConnectionLost ==
    /\ pc = "running"
    /\ ws_open
    /\ ws_open' = FALSE
    /\ tasks' = [tasks EXCEPT !["account"] = 0]
    /\ orders' = <<>>
    /\ last' = NoObs
    /\ UNCHANGED <<account_snapshot, book_snapshot, kline_snapshot, rolling_klines, state, pc,
                   stream>>

\* stream_kline_shared: a message without "k": k = data.get("k", {}), then
\* kline_dict.clear() and kline_dict.update(k) leave the snapshot empty
KlineOtherMessage ==
    /\ pc = "running"
    /\ tasks["kline"] > 0
    /\ kline_snapshot' = <<>>
    /\ orders' = <<>>
    /\ last' = NoObs
    /\ UNCHANGED <<account_snapshot, book_snapshot, rolling_klines, state, pc, tasks, ws_open, stream>>

\* run_with_reconnect after an exception has left main_trading_loop: leaving
\* `async with` closes the websocket (the account receiver of the failed
\* session ends on ConnectionClosed; nothing cancels its book and kline
\* tasks), the error is logged, and after retry_wait a new connection logs on
\* and runs main_trading_loop from its first line.  The start-up creates the
\* three listener tasks and then either finds its snapshots and constructs
\* a new TrailingState, or times out waiting for them and calls sys.exit(1);
\* a logon answer other than 200 makes run_with_reconnect return.
Reconnect ==
    /\ pc = "failed"
    /\ \A l \in Listeners : tasks[l] < MaxListeners
    /\ orders' = <<>>
    /\ UNCHANGED stream
    /\ \E outcome \in {"ready", "timeout", "logon_failed"} :
          IF outcome = "ready"
          THEN /\ account_snapshot' \in AccountSnapshots(SessionFreeStrs)
               /\ book_snapshot' \in BookSnapshots
               /\ kline_snapshot' \in KlineMsgs(ROLLING_KLINES_MAXLEN)
               /\ rolling_klines' \in Histories
               /\ state' = TrailingState
               /\ tasks' = [l \in Listeners |->
                               IF l = "account" THEN 1 ELSE tasks[l] + 1]
               /\ ws_open' = TRUE
               /\ last' = [NoObs EXCEPT !.outcome = "reconnected", !.pre = state]
               /\ pc' = "running"
          ELSE /\ tasks' = [l \in Listeners |-> 0]
               /\ ws_open' = FALSE
               /\ last' = [NoObs EXCEPT !.outcome = outcome, !.pre = state]
               /\ pc' = "exited"
               /\ UNCHANGED <<account_snapshot, book_snapshot, kline_snapshot,
                              rolling_klines, state>>

NextSession ==
    \/ Tick
    \/ AccountPosition(SessionFreeStrs)
    \/ BookTicker
    \/ KlineMessage
    \/ KlineOtherMessage
    \/ Hotkey
    \/ ConnectionLost
    \/ Reconnect

SpecSession == InitSession /\ [][NextSession]_vars

(***************************************************************************)
(* C14 - TrailingState across a reconnect                                   *)
(***************************************************************************)
\* the latest step started a new session after a failed one; last.pre is the
\* TrailingState of the failed session
Reconnected == last.outcome = "reconnected"

\* C14: after a connection loss and automatic reconnect the gate state, the
\* recorded regime, anchor_value, high_value and the arm flags are what they
\* were before the loss.
C14_StateSurvivesReconnect ==
    Reconnected =>
        \A f \in {"donchian_gate_active", "last_donchian_regime", "anchor_value",
                  "high_value", "maker_exit_armed", "hard_stop_armed"} :
            last.pre[f] = state[f]

\* C14, its last clause alone: a reconnect never releases an ACTIVE gate
C14_ActiveGateSurvivesReconnect ==
    (Reconnected /\ last.pre.donchian_gate_active) => state.donchian_gate_active

(***************************************************************************)
(* C15 - listener tasks across sessions                                     *)
(***************************************************************************)
\* C15: at any time at most one task of each listener (account feed,
\* book-ticker feed, kline feed) is running; the tasks of a failed session are
\* gone when the next session starts.
C15_OneTaskPerListener == \A l \in Listeners : tasks[l] <= 1

(***************************************************************************)
(* C16 - a loop iteration that finds a snapshot field missing               *)
(***************************************************************************)
\* C16: a loop iteration that finds bid or ask missing, or the kline snapshot
\* without its close time, is skipped: it submits no order, changes neither
\* the TrailingState nor the rolling window (last.pre and last.window are
\* what it found), no exception leaves the loop, and the loop goes on.
C16_MissingFieldSkipsTick ==
    last.outcome \in {"no_book", "key_error"} =>
        /\ orders = <<>>
        /\ last.pre = state
        /\ last.window = rolling_klines
        /\ pc = "running"

(***************************************************************************)
(* C17 - division faults                                                    *)
(***************************************************************************)
\* C17: no loop iteration raises a division fault: every division of the
\* threshold, drop-fraction and callback-factor math has a non-zero
\* denominator or is resolved to the default 0.
C17_NoDivisionFault == last.outcome # "raised"

(***************************************************************************)
(* C18 - process exit                                                       *)
(***************************************************************************)
\* C18: the process never ends on its own: every failure inside a trading
\* session (snapshot initialisation timeout, feed error, gateway error) leads
\* to a logged error and a reconnect, never to process exit.
C18_NeverExits == pc # "exited"

(***************************************************************************)
(* The rolling window on its own: any bar against any window that a        *)
(* start-up can leave (1 to ROLLING_KLINES_MAXLEN historical bars in close- *)
(* time order)                                                              *)
(***************************************************************************)
Bars == [T : 1..MaxT, c : CloseStrs, x : {FALSE}]

StartWindows ==
    { w \in UNION { [1..n -> Bars] : n \in 1..ROLLING_KLINES_MAXLEN } :
        \A i \in 1..(Len(w) - 1) : w[i].T < w[i + 1].T }

InitWindow ==
    /\ account_snapshot \in AccountSnapshots([a \in Assets |-> { Dec8(0, 0) }])
    /\ book_snapshot \in { [bid_price |-> None, ask_price |-> None] }
    /\ rolling_klines \in StartWindows
    /\ kline_snapshot = rolling_klines[Len(rolling_klines)]
    /\ state = TrailingState
    /\ orders = <<>>
    /\ last = NoObs
    /\ pc = "running"
    /\ tasks = SessionTasks
    /\ ws_open = TRUE
    /\ stream = StreamStart

\* the kline stream delivers a bar and the loop merges it into the window;
\* last.window is the window before
WindowUpdate ==
    /\ \E current_kline \in Bars :
          /\ kline_snapshot' = current_kline
          /\ rolling_klines' = RollingKlinesUpdate(rolling_klines, current_kline)
    /\ last' = [NoObs EXCEPT !.outcome = "window", !.window = rolling_klines]
    /\ orders' = <<>>
    /\ UNCHANGED <<account_snapshot, book_snapshot, state, pc, tasks, ws_open, stream>>

NextWindow == WindowUpdate

SpecWindow == InitWindow /\ [][NextWindow]_vars

\* the latest step was a window update
WindowUpdated == last.outcome = "window"

\* close time of the last bar of the window before the update
LastT == last.window[Len(last.window)].T

(***************************************************************************)
(* C19 - length, append, eviction and in-place replacement                  *)
(***************************************************************************)
\* C19: after any window update the window has at most ROLLING_KLINES_MAXLEN
\* bars; a bar with a close time greater than the last stored bar's is
\* appended, the oldest bar being evicted first if and only if the window was
\* at capacity; a bar with the close time of the last stored bar replaces it
\* in place, the length and every other element staying as they were.
C19_WindowUpdate ==
    WindowUpdated =>
        /\ Len(rolling_klines) <= ROLLING_KLINES_MAXLEN
        /\ kline_snapshot.T > LastT =>
              /\ rolling_klines[Len(rolling_klines)] = kline_snapshot
              /\ Len(last.window) < ROLLING_KLINES_MAXLEN =>
                    /\ Len(rolling_klines) = Len(last.window) + 1
                    /\ \A i \in 1..Len(last.window) : rolling_klines[i] = last.window[i]
              /\ Len(last.window) = ROLLING_KLINES_MAXLEN =>
                    /\ Len(rolling_klines) = ROLLING_KLINES_MAXLEN
                    /\ \A i \in 1..(ROLLING_KLINES_MAXLEN - 1) :
                          rolling_klines[i] = last.window[i + 1]
        /\ kline_snapshot.T = LastT =>
              /\ Len(rolling_klines) = Len(last.window)
              /\ rolling_klines[Len(rolling_klines)] = kline_snapshot
              /\ \A i \in 1..(Len(last.window) - 1) : rolling_klines[i] = last.window[i]

\* C19 witness: a newer bar arrives at a full window and the oldest bar goes
C19_Witness ==
    /\ WindowUpdated
    /\ Len(last.window) = ROLLING_KLINES_MAXLEN
    /\ kline_snapshot.T > LastT
    /\ Len(rolling_klines) = ROLLING_KLINES_MAXLEN
    /\ rolling_klines[1] = last.window[2]
    /\ rolling_klines[1] # last.window[1]

(***************************************************************************)
(* C20 - a bar older than the last stored bar                               *)
(***************************************************************************)
\* C20: the close time of the window's last bar never moves backward: an
\* update with a bar whose close time is less than the last stored bar's
\* leaves the window unchanged, and close times are strictly increasing along
\* the window.
C20_CloseTimeNeverMovesBack ==
    WindowUpdated =>
        /\ kline_snapshot.T < LastT => rolling_klines = last.window
        /\ rolling_klines[Len(rolling_klines)].T >= LastT
        /\ \A i \in 1..(Len(rolling_klines) - 1) : rolling_klines[i].T < rolling_klines[i + 1].T

(***************************************************************************)
(* The kline stream against the loop: the stream writes the snapshot        *)
(* message by message in stream order (updates of the forming bar, its      *)
(* closing message with x = true, then the next bar), the loop samples the  *)
(* snapshot once per iteration and merges it into the window                *)
(***************************************************************************)
\* the messages that can follow the one in the snapshot
FeedMsgs(k) ==
    IF k.x
    THEN [T : { t \in {k.T + 1} : t <= MaxT }, c : CloseStrs, x : {FALSE}]
    ELSE [T : {k.T}, c : CloseStrs, x : BOOLEAN]

InitFeed ==
    /\ account_snapshot \in AccountSnapshots([a \in Assets |-> { Dec8(0, 0) }])
    /\ book_snapshot \in { [bid_price |-> None, ask_price |-> None] }
    /\ rolling_klines \in Histories
    /\ kline_snapshot \in [T : {ROLLING_KLINES_MAXLEN}, c : CloseStrs, x : {FALSE}]
    /\ state = TrailingState
    /\ orders = <<>>
    /\ last = NoObs
    /\ pc = "running"
    /\ tasks = SessionTasks
    /\ ws_open = TRUE
    /\ stream = StreamStart

\* stream_kline_shared: the next message of the stream overwrites the snapshot
KlineFeed ==
    /\ \E k \in FeedMsgs(kline_snapshot) : kline_snapshot' = k
    /\ orders' = <<>>
    /\ last' = NoObs
    /\ UNCHANGED <<account_snapshot, book_snapshot, rolling_klines, state, pc, tasks, ws_open, stream>>

\* the loop iteration's `current_kline = dict(kline_snapshot)` and window
\* management; last.window is the window before
WindowSample ==
    /\ rolling_klines' = RollingKlinesUpdate(rolling_klines, kline_snapshot)
    /\ last' = [NoObs EXCEPT !.outcome = "window", !.window = rolling_klines]
    /\ orders' = <<>>
    /\ UNCHANGED <<account_snapshot, book_snapshot, kline_snapshot, state, pc, tasks, ws_open, stream>>

NextFeed ==
    \/ KlineFeed
    \/ WindowSample

SpecFeed == InitFeed /\ [][NextFeed]_vars

(***************************************************************************)
(* C21 - unclosed bars of the window                                        *)
(***************************************************************************)
\* C21: in every reachable window at most one bar is unclosed (x false), and
\* an unclosed bar is the last element.
C21_OneOpenBarLast ==
    \A i \in 1..(Len(rolling_klines) - 1) : rolling_klines[i].x


(***************************************************************************)
(* C22 - detect_regime on its own                                          *)
(***************************************************************************)
\* balances and prices around the two minimums: 0.00001 and 0.0001 ETH
\* (below / at MIN_QTY), 0.0025 ETH (worth 4.9975 at 1999 and 7.5 at 3000),
\* 4.99 and 5 FDUSD (below / at MIN_NOTIONAL; 5 FDUSD buys less than one lot
\* at 50001), and the amounts of tests/test_main_logic.py
RegimeBaseStrs == { Dec8(0, 0), Dec8(0, 1000), Dec8(0, 10000), Dec8(0, 250000), Dec8(1, 0) }
RegimeQuoteStrs == { Dec8(0, 0), Dec8(1, 0), Dec8(4, 99000000), Dec8(5, 0), Dec8(3000, 0) }
RegimePrices == { <<Dec8(1999, 0), Dec8(2000, 0)>>,
                  <<Dec8(3000, 0), Dec8(3001, 0)>>,
                  <<Dec8(50000, 0), Dec8(50001, 0)>> }

InitRegime ==
    /\ account_snapshot \in
          { [a \in Assets |-> Balance(IF a = BASE_ASSET THEN b ELSE q, Dec8(0, 0))] :
              b \in RegimeBaseStrs, q \in RegimeQuoteStrs }
    /\ book_snapshot \in
          { [bid_price |-> float_str(p[1]), ask_price |-> float_str(p[2])] : p \in RegimePrices }
    /\ kline_snapshot \in KlineMsgs(MaxT)
    /\ rolling_klines = <<>>
    /\ state = TrailingState
    /\ orders = <<>>
    /\ last = NoObs
    /\ pc = "running"
    /\ tasks = SessionTasks
    /\ ws_open = TRUE
    /\ stream = StreamStart

\* regime = detect_regime(state.live_bal_total, bid, ask)
DetectRegime ==
    /\ LET bal == get_balance_from_snapshot(account_snapshot).total
           bid == book_snapshot.bid_price
           ask == book_snapshot.ask_price
       IN  last' = [NoObs EXCEPT !.outcome = "regime", !.bal = bal, !.bid = bid, !.ask = ask,
                                 !.regime = detect_regime(bal, bid, ask)]
    /\ orders' = <<>>
    /\ UNCHANGED <<account_snapshot, book_snapshot, kline_snapshot, rolling_klines, state, pc,
                   tasks, ws_open, stream>>

NextRegime == DetectRegime

SpecRegime == InitRegime /\ [][NextRegime]_vars

\* the two conditions of the claim, on the arguments of the call
CanSellBase ==
    /\ RGe(last.bal[BASE_ASSET], MIN_QTY)
    /\ RGe(RMul(last.bal[BASE_ASSET], last.bid), MIN_NOTIONAL)

CanBuyBase ==
    /\ RGe(last.bal[QUOTE_ASSET], MIN_NOTIONAL)
    /\ RGe(clip(RDiv(last.bal[QUOTE_ASSET], last.ask), LOT_SIZE), MIN_QTY)

\* C22: detect_regime returns BASE iff base >= MIN_QTY and base x bid >=
\* MIN_NOTIONAL; otherwise QUOTE iff quote >= MIN_NOTIONAL and the quote
\* amount buys at least MIN_QTY floored to LOT_SIZE; otherwise None.  BASE
\* wins when both hold; the three accounts of the tests give BASE, QUOTE, None.
C22_DetectRegime ==
    last.outcome = "regime" =>
        /\ (last.regime = "BASE") <=> CanSellBase
        /\ (last.regime = "QUOTE") <=> (~CanSellBase /\ CanBuyBase)
        /\ (last.regime = None) <=> (~CanSellBase /\ ~CanBuyBase)
        /\ (last.bal[BASE_ASSET] = One /\ last.bid = Rat(3000, 1)) => last.regime = "BASE"
        /\ (last.bal[BASE_ASSET] = Zero /\ last.bal[QUOTE_ASSET] = Rat(3000, 1))
              => last.regime = "QUOTE"
        /\ (last.bal[BASE_ASSET] = Rat(1, 100000) /\ last.bal[QUOTE_ASSET] = One)
              => last.regime = None

\* C22 witness: an account that satisfies both conditions is BASE
C22_Witness ==
    /\ last.outcome = "regime"
    /\ CanSellBase
    /\ CanBuyBase
    /\ last.regime = "BASE"


(***************************************************************************)
(* C23 - the minimum gain threshold of an iteration                        *)
(***************************************************************************)
\* the three candidates of the claim, computed from the anchor a
StaticCandidate(a) ==
    RMul(a, IF last.regime = "BASE" THEN MIN_GAIN_TRIGGER_FRAC_BASE
            ELSE MIN_GAIN_TRIGGER_FRAC_QUOTE)

FeeBufferCandidate(a) == RMul(a, RAdd(FEE, BUFFER))

WidthCandidate ==
    IF last.regime = "BASE"
    THEN RMul(RMul(last.bal.total[BASE_ASSET], last.donchian_width), DONCHIAN_GAIN_MULTIPLIER)
    ELSE IF RGt(last.ask, Zero) /\ RGt(RSub(last.ask, last.donchian_width), Zero)
         THEN RDiv(RMul(RMul(last.bal.total[QUOTE_ASSET], last.donchian_width),
                        DONCHIAN_GAIN_MULTIPLIER),
                   RMul(last.ask, RSub(last.ask, last.donchian_width)))
         ELSE Zero

\* C23: the threshold of an iteration is the maximum of anchor x static
\* fraction, anchor x (FEE + BUFFER) and the channel-width candidate, with
\* the anchor that the same iteration's gain is computed from; it is >= each
\* candidate and >= 0.
C23_ThresholdFromGainAnchor ==
    (TickDone /\ last.donchian_width # NaN) =>
        LET a == last.m.anchor
            t == last.min_gain_for_trigger
        IN  /\ t = RMax(RMax(StaticCandidate(a), FeeBufferCandidate(a)), WidthCandidate)
            /\ RGe(t, StaticCandidate(a))
            /\ RGe(t, FeeBufferCandidate(a))
            /\ RGe(t, WidthCandidate)
            /\ RGe(t, Zero)


(***************************************************************************)
(* C24 - compute_donchian_channels on its own                              *)
(***************************************************************************)
\* close series of up to MaxBars bars over the closes of
\* tests/websocket/test_market_fetch.py, windows 1..MaxLength, lags 0..MaxLag
MaxBars == 5
MaxLength == 3
MaxLag == 2
TestCloses == { Dec8(10, 0), Dec8(20, 0), Dec8(40, 0), Dec8(50, 0) }

CloseSeries ==
    UNION { [1..n -> TestCloses] : n \in 1..MaxBars }

BarsOf(cs) == [i \in 1..Len(cs) |-> [T |-> i, c |-> cs[i], x |-> TRUE]]

InitDonchian ==
    /\ account_snapshot \in AccountSnapshots([a \in Assets |-> { Dec8(0, 0) }])
    /\ book_snapshot \in { [bid_price |-> None, ask_price |-> None] }
    /\ kline_snapshot \in KlineMsgs(MaxT)
    /\ rolling_klines \in { BarsOf(cs) : cs \in CloseSeries }
    /\ state = TrailingState
    /\ orders = <<>>
    /\ last = NoObs
    /\ pc = "running"
    /\ tasks = SessionTasks
    /\ ws_open = TRUE
    /\ stream = StreamStart

\* upper, lower, mid = compute_donchian_channels(klines, window, shift)
ComputeChannels ==
    /\ last.outcome = "none"
    /\ \E window \in 1..MaxLength, shift \in 0..MaxLag :
          last' = [NoObs EXCEPT !.outcome = "channels", !.window = rolling_klines,
                                !.m = [window |-> window, shift |-> shift,
                                       ch |-> compute_donchian_channels(rolling_klines,
                                                                        window, shift)]]
    /\ orders' = <<>>
    /\ UNCHANGED <<account_snapshot, book_snapshot, kline_snapshot, rolling_klines, state, pc,
                   tasks, ws_open, stream>>

NextDonchian == ComputeChannels

SpecDonchian == InitDonchian /\ [][NextDonchian]_vars

\* the closes the claim names for the 1-based index i: indices
\* max(1, i - lag - length + 1) .. i - lag
ChannelCloses(klines, window, shift, i) ==
    { float_str(klines[j].c) :
        j \in (IF i - shift - window + 1 < 1 THEN 1 ELSE i - shift - window + 1)..(i - shift) }

SetMax(S) == CHOOSE m \in S : \A y \in S : RLe(y, m)
SetMin(S) == CHOOSE m \in S : \A y \in S : RLe(m, y)

\* the series with the closes of its last `shift` bars replaced by c
WithLastCloses(klines, shift, c) ==
    [j \in 1..Len(klines) |-> IF j > Len(klines) - shift THEN [klines[j] EXCEPT !.c = c]
                              ELSE klines[j]]

\* C24: at every index at or after the lag, upper and lower are the maximum
\* and minimum of the closes of the `length` bars ending `lag` bars earlier
\* (fewer at the start of the series), mid is their mean, lower <= mid <=
\* upper, the width is >= 0, and the channel at the last index is the same
\* whatever the closes of the last `lag` bars are; closes 10, 20, 40, 10, 50
\* with window 3 and lag 1 give 40 / 10 / 25 at the last index.
C24_DonchianChannels ==
    last.outcome = "channels" =>
        LET klines == last.window
            window == last.m.window
            shift == last.m.shift
            ch == last.m.ch
            n == Len(klines)
        IN  /\ \A i \in (shift + 1)..n :
                  /\ ch.upper[i] = SetMax(ChannelCloses(klines, window, shift, i))
                  /\ ch.lower[i] = SetMin(ChannelCloses(klines, window, shift, i))
                  /\ ch.mid[i] = RDiv(RAdd(ch.upper[i], ch.lower[i]), Rat(2, 1))
                  /\ RLe(ch.lower[i], ch.mid[i])
                  /\ RLe(ch.mid[i], ch.upper[i])
                  /\ RGe(RSub(ch.upper[i], ch.lower[i]), Zero)
            /\ n > shift =>
                  \A c \in TestCloses :
                      LET other == compute_donchian_channels(WithLastCloses(klines, shift, c),
                                                             window, shift)
                      IN  /\ other.upper[n] = ch.upper[n]
                          /\ other.lower[n] = ch.lower[n]
                          /\ other.mid[n] = ch.mid[n]
            /\ (klines = BarsOf(<<Dec8(10, 0), Dec8(20, 0), Dec8(40, 0), Dec8(10, 0),
                                  Dec8(50, 0)>>) /\ window = 3 /\ shift = 1) =>
                  /\ ch.upper[n] = Rat(40, 1)
                  /\ ch.lower[n] = Rat(10, 1)
                  /\ ch.mid[n] = Rat(25, 1)

\* C24 witness: the series of the test, window 3, lag 1
C24_Witness ==
    /\ last.outcome = "channels"
    /\ last.window = BarsOf(<<Dec8(10, 0), Dec8(20, 0), Dec8(40, 0), Dec8(10, 0), Dec8(50, 0)>>)
    /\ last.m.window = 3
    /\ last.m.shift = 1
    /\ last.m.ch.upper[5] = Rat(40, 1)
    /\ last.m.ch.lower[5] = Rat(10, 1)


(***************************************************************************)
(* C25 - the window's channel against one pass over every bar              *)
(***************************************************************************)
\* the history the loop starts from: ROLLING_KLINES_MAXLEN bars, any closes
BulkHistories ==
    { [i \in 1..ROLLING_KLINES_MAXLEN |-> [T |-> i, c |-> cs[i], x |-> TRUE]] :
        cs \in [1..ROLLING_KLINES_MAXLEN -> CloseStrs] }

\* every distinct bar given so far, in close-time order, each with its
\* latest update: the bars a single pass would be run over
MergeBar(all, k) ==
    LET Ts == { all[i].T : i \in DOMAIN all } \cup { k.T }
        nth(i) == CHOOSE t \in Ts : Cardinality({ u \in Ts : u < t }) = i - 1
        barAt(t) == IF t = k.T THEN k ELSE all[CHOOSE i \in DOMAIN all : all[i].T = t]
    IN  [i \in 1..Cardinality(Ts) |-> barAt(nth(i))]

\* last.m.all carries the bars given so far; the window starts as the whole
\* history (main.py:452-476)
InitBulk ==
    /\ account_snapshot \in AccountSnapshots([a \in Assets |-> { Dec8(0, 0) }])
    /\ book_snapshot \in { [bid_price |-> None, ask_price |-> None] }
    /\ rolling_klines \in BulkHistories
    /\ kline_snapshot = rolling_klines[Len(rolling_klines)]
    /\ state = TrailingState
    /\ orders = <<>>
    /\ last = [NoObs EXCEPT !.m = [all |-> rolling_klines]]
    /\ pc = "running"
    /\ tasks = SessionTasks
    /\ ws_open = TRUE
    /\ stream = StreamStart

\* one bar update: the loop merges it into the window
BulkUpdate ==
    /\ \E current_kline \in Bars :
          /\ kline_snapshot' = current_kline
          /\ rolling_klines' = RollingKlinesUpdate(rolling_klines, current_kline)
          /\ last' = [NoObs EXCEPT !.outcome = "bulk", !.window = rolling_klines,
                                   !.m = [all |-> MergeBar(last.m.all, current_kline)]]
    /\ orders' = <<>>
    /\ UNCHANGED <<account_snapshot, book_snapshot, state, pc, tasks, ws_open, stream>>

NextBulk == BulkUpdate

SpecBulk == InitBulk /\ [][NextBulk]_vars

\* the channel at the last index of a series
LastChannel(klines) ==
    LET ch == compute_donchian_channels(klines, DONCHIAN_WINDOW, DONCHIAN_SHIFT)
        n == Len(klines)
    IN  <<ch.upper[n], ch.lower[n], ch.mid[n]>>

\* C25: after every sequence of bar updates the channel (upper, lower, mid)
\* at the last index of the rolling window equals the channel at the last
\* index of one pass over all distinct bars given so far.
C25_BulkEqualsIncremental ==
    last.outcome = "bulk" => LastChannel(rolling_klines) = LastChannel(last.m.all)


(***************************************************************************)
(* C26 - what a reader of the snapshots can see                             *)
(***************************************************************************)
\* dict.update(k) and dict.clear() on a snapshot dict
DictUpdate(d, k) ==
    [key \in DOMAIN d \cup DOMAIN k |-> IF key \in DOMAIN k THEN k[key] ELSE d[key]]

DictClear(d) == <<>>

\* variant of the kline handler without kline_dict.clear(), used to test the
\* sensitivity of C26
kline_handler_NoClear(kline_dict, data) ==
    LET k == IF "k" \in DOMAIN data THEN data.k ELSE <<>>
    IN  DictUpdate(kline_dict, k)

\* stream_kline_shared, body of `async for message in ws`: no await between
\* clear() and update(k), so no other coroutine runs between them
kline_handler(kline_dict, data) ==
    LET k == IF "k" \in DOMAIN data THEN data.k ELSE <<>>
    IN  DictUpdate(DictClear(kline_dict), k)

\* stream_bookticker_shared, body of `async for message in ws`: one update()
\* with both prices
bookticker_handler(snapshot_dict, data) ==
    DictUpdate(snapshot_dict, [bid_price |-> float_str(data.b), ask_price |-> float_str(data.a)])

\* parse_account_balance_event: one dict per entry of "B"
account_handler(snapshot_dict, B) ==
    DictUpdate(snapshot_dict, [a \in DOMAIN B |-> Balance(B[a].f, B[a].l)])

\* messages whose fields tell which message they came from: each bid has
\* one ask, each (T, c) one x, each free amount one locked amount
SnapTickers == { [b |-> p[1], a |-> p[2]] : p \in PriceTicks }

SnapPayloads ==
    { [T |-> 3, c |-> Dec8(199, 0), x |-> FALSE],
      [T |-> 3, c |-> Dec8(203, 0), x |-> TRUE],
      [T |-> 4, c |-> Dec8(199, 0)] }

SnapKlineData == { [k |-> p] : p \in SnapPayloads } \cup { [e |-> "other"] }

SnapEntries == { [f |-> Dec8(1, 0), l |-> Dec8(0, 0)], [f |-> Dec8(0, 0), l |-> Dec8(2, 0)] }

SnapEvents == UNION { [B -> SnapEntries] : B \in (SUBSET Assets) \ {{}} }

\* the three snapshot dicts as main_trading_loop creates them (main.py:495-502)
InitSnap ==
    /\ account_snapshot = <<>>
    /\ book_snapshot = <<>>
    /\ kline_snapshot = <<>>
    /\ rolling_klines = <<>>
    /\ state = TrailingState
    /\ orders = <<>>
    /\ last = NoObs
    /\ pc = "running"
    /\ tasks = SessionTasks
    /\ ws_open = TRUE
    /\ stream = StreamStart

SnapTicker ==
    /\ \E data \in SnapTickers : book_snapshot' = bookticker_handler(book_snapshot, data)
    /\ orders' = <<>>
    /\ last' = NoObs
    /\ UNCHANGED <<account_snapshot, kline_snapshot, rolling_klines, state, pc, tasks, ws_open, stream>>

SnapKline ==
    /\ \E data \in SnapKlineData : kline_snapshot' = kline_handler(kline_snapshot, data)
    /\ orders' = <<>>
    /\ last' = NoObs
    /\ UNCHANGED <<account_snapshot, book_snapshot, rolling_klines, state, pc, tasks, ws_open, stream>>

SnapAccount ==
    /\ \E B \in SnapEvents : account_snapshot' = account_handler(account_snapshot, B)
    /\ orders' = <<>>
    /\ last' = NoObs
    /\ UNCHANGED <<book_snapshot, kline_snapshot, rolling_klines, state, pc, tasks, ws_open, stream>>

\* the reads at the top of a loop iteration (main.py:609-627), which run
\* without an await between them
SnapRead ==
    /\ last' = [NoObs EXCEPT
                  !.outcome = "read",
                  !.bal = get_balance_from_snapshot(account_snapshot),
                  !.bid = IF "bid_price" \in DOMAIN book_snapshot
                          THEN book_snapshot.bid_price ELSE None,
                  !.ask = IF "ask_price" \in DOMAIN book_snapshot
                          THEN book_snapshot.ask_price ELSE None,
                  !.m = [current_kline |-> kline_snapshot]]
    /\ orders' = <<>>
    /\ UNCHANGED <<account_snapshot, book_snapshot, kline_snapshot, rolling_klines, state, pc,
                   tasks, ws_open, stream>>

NextSnap == SnapTicker \/ SnapKline \/ SnapAccount \/ SnapRead

SpecSnap == InitSnap /\ [][NextSnap]_vars

\* C26: whenever the loop reads the snapshots, bid and ask are those of one
\* ticker message (or both absent), the kline fields are those of one kline
\* payload (or none), and each asset's free and total are those of one
\* account entry (or zero before the first).
C26_ReadsAreWholeMessages ==
    last.outcome = "read" =>
        /\ \/ last.bid = None /\ last.ask = None
           \/ \E data \in SnapTickers :
                 last.bid = float_str(data.b) /\ last.ask = float_str(data.a)
        /\ \/ DOMAIN last.m.current_kline = {}
           \/ \E p \in SnapPayloads :
                 /\ DOMAIN last.m.current_kline = DOMAIN p
                 /\ \A key \in DOMAIN p : last.m.current_kline[key] = p[key]
        /\ \A a \in Assets :
              \/ last.bal.free[a] = Zero /\ last.bal.total[a] = Zero /\ a \notin DOMAIN account_snapshot
              \/ \E e \in SnapEntries :
                    /\ last.bal.free[a] = float_str(e.f)
                    /\ last.bal.locked[a] = float_str(e.l)
                    /\ last.bal.total[a] = RAdd(float_str(e.f), float_str(e.l))

\* C26 witness: a read after a payload with fewer keys has replaced one with
\* more, and after both prices and both balances have been written
C26_Witness ==
    /\ last.outcome = "read"
    /\ DOMAIN last.m.current_kline = {"T", "c"}
    /\ last.bid # None
    /\ \A a \in Assets : a \in DOMAIN account_snapshot


(***************************************************************************)
(* C27 - the retry loop of the market streams                              *)
(***************************************************************************)
\* stream_bookticker_shared and stream_kline_shared have the same loop
\* `while retry_count < MAX_RETRIES` with the same handlers; the model is of
\* stream_bookticker_shared.
MAX_RETRIES == 3
RETRY_DELAYS == <<2, 4, 8>>

\* events of one run that the model follows
MaxEvents == 6

\* connect() raising, or the open connection ending, with
\* ConnectionClosedError ("closed" / "drop") or asyncio.TimeoutError
ConnectFailures == {"closed", "timeout"}

\* variant that leaves retry_count as it is when a connection succeeds, used
\* to test the sensitivity of C27
on_connected_NoReset(st) == [st EXCEPT !.pc = "streaming"]

\* `async with websockets.connect(...) as ws:` entered: retry_count = 0
on_connected(st) == [st EXCEPT !.pc = "streaming", !.retry_count = 0]

\* `except ConnectionClosedError` and `except asyncio.TimeoutError`: the two
\* handlers have the same body
on_connection_error(st, kind) ==
    LET retry_count == st.retry_count + 1
    IN  IF retry_count < MAX_RETRIES
        THEN [st EXCEPT !.retry_count = retry_count,
                        !.sleeps = Append(@, RETRY_DELAYS[retry_count]),
                        !.pc = "connect"]
        ELSE [st EXCEPT !.retry_count = retry_count, !.pc = "raised", !.raised = kind]

InitRetry ==
    /\ account_snapshot = <<>>
    /\ book_snapshot = <<>>
    /\ kline_snapshot = <<>>
    /\ rolling_klines = <<>>
    /\ state = TrailingState
    /\ orders = <<>>
    /\ last = NoObs
    /\ pc = "running"
    /\ tasks = SessionTasks
    /\ ws_open = TRUE
    /\ stream = StreamStart

\* one pass of the while loop up to the connection: websockets.connect
\* succeeds, raises ConnectionClosedError or asyncio.TimeoutError, or raises
\* anything else (`except Exception: raise`)
StreamConnect ==
    /\ stream.pc = "connect"
    /\ stream.retry_count < MAX_RETRIES
    /\ Len(stream.log) < MaxEvents
    /\ \E outcome \in {"ok", "closed", "timeout", "error"} :
          LET st == [stream EXCEPT !.log = Append(@, outcome)]
          IN  stream' = IF outcome = "ok" THEN on_connected(st)
                        ELSE IF outcome \in ConnectFailures THEN on_connection_error(st, outcome)
                        ELSE [st EXCEPT !.pc = "raised", !.raised = outcome]
    /\ orders' = <<>>
    /\ last' = NoObs
    /\ UNCHANGED <<account_snapshot, book_snapshot, kline_snapshot, rolling_klines, state, pc,
                   tasks, ws_open>>

\* `async for message in ws`: one bookTicker message
StreamMessage ==
    /\ stream.pc = "streaming"
    /\ \E data \in SnapTickers : book_snapshot' = bookticker_handler(book_snapshot, data)
    /\ orders' = <<>>
    /\ last' = NoObs
    /\ UNCHANGED <<account_snapshot, kline_snapshot, rolling_klines, state, pc, tasks, ws_open,
                   stream>>

\* the open connection ends: with an error (`async for` raises
\* ConnectionClosedError, "drop") or normally (the iteration stops, "end",
\* and the while loop goes round)
StreamClose ==
    /\ stream.pc = "streaming"
    /\ Len(stream.log) < MaxEvents
    /\ \E how \in {"drop", "end"} :
          LET st == [stream EXCEPT !.log = Append(@, how)]
          IN  stream' = IF how = "drop" THEN on_connection_error(st, "closed")
                        ELSE [st EXCEPT !.pc = "connect"]
    /\ orders' = <<>>
    /\ last' = NoObs
    /\ UNCHANGED <<account_snapshot, book_snapshot, kline_snapshot, rolling_klines, state, pc,
                   tasks, ws_open>>

NextRetry == StreamConnect \/ StreamMessage \/ StreamClose

SpecRetry == InitRetry /\ [][NextRetry]_vars

\* the stream function has given up with a connection error
GaveUp == stream.pc = "raised" /\ stream.raised \in ConnectFailures

\* the latest k events of the run
LastEvents(k) == SubSeq(stream.log, Len(stream.log) - k + 1, Len(stream.log))

\* the three latest connection attempts all failed
ThreeAttemptsFailed ==
    /\ Len(stream.log) >= 3
    /\ \A i \in 1..3 : LastEvents(3)[i] \in ConnectFailures

\* every attempt of the run has failed
EveryAttemptFailed == \A i \in 1..Len(stream.log) : stream.log[i] \in ConnectFailures

\* the sleeps of a run in which every attempt fails
AllFailRun ==
    EveryAttemptFailed =>
        /\ Len(stream.log) <= 3
        /\ stream.sleeps = SubSeq(<<2, 4>>, 1, IF Len(stream.log) < 2 THEN Len(stream.log) ELSE 2)
        /\ Len(stream.log) = 3 => GaveUp

\* C27 as stated: the stream function gives up, re-raising the last
\* connection error, exactly when 3 consecutive connection attempts have
\* failed with ConnectionClosedError or asyncio.TimeoutError; a run in which
\* every attempt fails makes exactly 3 attempts and sleeps 2 s and 4 s.
C27_GivesUpAfterThreeFailedAttempts ==
    /\ GaveUp <=> ThreeAttemptsFailed
    /\ GaveUp => stream.raised = stream.log[Len(stream.log)]
    /\ AllFailRun

\* C27 amended: the stream function gives up, re-raising the last connection
\* error, exactly when retry_count reaches MAX_RETRIES: the two latest
\* connection attempts failed and, before them, either a third attempt failed
\* or an open connection was lost with ConnectionClosedError (connecting
\* zeroes the counter, the loss of that connection makes it 1).  A run in
\* which every attempt fails makes exactly 3 attempts and sleeps 2 s and 4 s.
C27_GivesUpWhenCounterReachesThree ==
    /\ GaveUp <=> (/\ Len(stream.log) >= 3
                   /\ LastEvents(3)[1] \in ConnectFailures \cup {"drop"}
                   /\ LastEvents(3)[2] \in ConnectFailures
                   /\ LastEvents(3)[3] \in ConnectFailures)
    /\ GaveUp <=> stream.retry_count = MAX_RETRIES
    /\ GaveUp => stream.raised = stream.log[Len(stream.log)]
    /\ AllFailRun

\* C27 witness: the function has connected, lost the connection and given up
\* after two failed attempts, having slept 2 s and 4 s
C27_Witness ==
    /\ GaveUp
    /\ stream.log = <<"ok", "drop", "timeout", "closed">>
    /\ stream.sleeps = <<2, 4>>
    /\ stream.raised = "closed"


(***************************************************************************)
(* C28 - start-up validation of the configuration                          *)
(***************************************************************************)
\* the configuration as shipped (config.py), with the window sizes of the
\* model
ShippedConfig ==
    [MIN_QTY |-> MIN_QTY, MIN_NOTIONAL |-> MIN_NOTIONAL, LOT_SIZE |-> LOT_SIZE,
     PRICE_TICK |-> Rat(1, 100), MIN_PRICE |-> Rat(1, 100),
     START_FACTOR |-> START_FACTOR, MIN_FACTOR |-> MIN_FACTOR,
     GAIN_SCALE_FRAC_BASE |-> GAIN_SCALE_FRAC_BASE,
     GAIN_SCALE_FRAC_QUOTE |-> GAIN_SCALE_FRAC_QUOTE,
     MIN_GAIN_TRIGGER_FRAC_BASE |-> MIN_GAIN_TRIGGER_FRAC_BASE,
     MIN_GAIN_TRIGGER_FRAC_QUOTE |-> MIN_GAIN_TRIGGER_FRAC_QUOTE,
     HARD_STOP_THRESHOLD_FRAC |-> HARD_STOP_THRESHOLD_FRAC,
     FEE |-> FEE, BUFFER |-> BUFFER,
     DONCHIAN_WINDOW |-> Rat(DONCHIAN_WINDOW, 1), DONCHIAN_SHIFT |-> Rat(DONCHIAN_SHIFT, 1),
     DONCHIAN_GAIN_MULTIPLIER |-> DONCHIAN_GAIN_MULTIPLIER,
     KLINE_INTERVAL |-> "1m",
     ROLLING_KLINES_MAXLEN |-> Rat(ROLLING_KLINES_MAXLEN, 1)]

\* the step sizes, windows and thresholds the claim names
PositiveSettings ==
    {"LOT_SIZE", "PRICE_TICK", "MIN_QTY", "MIN_NOTIONAL", "DONCHIAN_WINDOW",
     "ROLLING_KLINES_MAXLEN", "HARD_STOP_THRESHOLD_FRAC", "GAIN_SCALE_FRAC_BASE",
     "GAIN_SCALE_FRAC_QUOTE"}

\* configurations in which each of them is negative, zero or as shipped
Configs ==
    { [key \in DOMAIN ShippedConfig |->
          IF key \notin PositiveSettings THEN ShippedConfig[key]
          ELSE IF v[key] = "negative" THEN Rat(-1, 1)
          ELSE IF v[key] = "zero" THEN Zero
          ELSE ShippedConfig[key]] :
        v \in [PositiveSettings -> {"negative", "zero", "shipped"}] }

\* each validator: the settings it reports; it raises ConfigValidationError
\* when the set is not empty
validate_trading_pair_config(config) ==
    { k \in {"MIN_QTY", "MIN_NOTIONAL", "LOT_SIZE", "PRICE_TICK"} : RLe(config[k], Zero) }
    \cup { k \in {"MIN_PRICE"} : RLt(config[k], Zero) }

validate_trailing_config(config) ==
    { k \in {"START_FACTOR", "MIN_FACTOR"} : ~(RLe(Zero, config[k]) /\ RLe(config[k], One)) }
    \cup { k \in {"START_FACTOR"} : RLt(config.START_FACTOR, config.MIN_FACTOR) }
    \cup { k \in {"GAIN_SCALE_FRAC_BASE", "GAIN_SCALE_FRAC_QUOTE",
                   "MIN_GAIN_TRIGGER_FRAC_BASE", "MIN_GAIN_TRIGGER_FRAC_QUOTE",
                   "HARD_STOP_THRESHOLD_FRAC"} : RLt(config[k], Zero) }

validate_fee_and_buffer(config) ==
    { k \in {"FEE", "BUFFER"} : RLt(config[k], Zero) }

validate_donchian_config(config) ==
    { k \in {"DONCHIAN_WINDOW"} : RLe(config[k], Zero) }
    \cup { k \in {"DONCHIAN_SHIFT", "DONCHIAN_GAIN_MULTIPLIER"} : RLt(config[k], Zero) }

validate_kline_config(config) ==
    { k \in {"KLINE_INTERVAL"} :
        config[k] \notin {"1s", "1m", "3m", "5m", "15m", "30m", "1h", "2h", "4h", "6h", "8h",
                          "12h", "1d", "3d", "1w", "1M"} }
    \cup { k \in {"ROLLING_KLINES_MAXLEN"} : RLe(config[k], Zero) }

\* validate_all_config raises ConfigValidationError (the environment and the
\* key file being in order)
validate_all_config(config) ==
    \/ validate_trading_pair_config(config) # {}
    \/ validate_trailing_config(config) # {}
    \/ validate_fee_and_buffer(config) # {}
    \/ validate_donchian_config(config) # {}
    \/ validate_kline_config(config) # {}

\* the process has been started and nothing has run yet
InitConfig ==
    /\ account_snapshot = <<>>
    /\ book_snapshot = <<>>
    /\ kline_snapshot = <<>>
    /\ rolling_klines = <<>>
    /\ state = TrailingState
    /\ orders = <<>>
    /\ last = NoObs
    /\ pc = "start"
    /\ tasks = [l \in Listeners |-> 0]
    /\ ws_open = FALSE
    /\ stream = StreamStart

\* run_with_reconnect, first lines: validate_all_config(); a
\* ConfigValidationError ends the process with sys.exit(1), otherwise the
\* reconnect loop is entered with this configuration in force
ValidateConfig ==
    /\ pc = "start"
    /\ \E config \in Configs :
          IF validate_all_config(config)
          THEN /\ pc' = "exited"
               /\ last' = [NoObs EXCEPT !.outcome = "config_rejected", !.m = config]
          ELSE /\ pc' = "connecting"
               /\ last' = [NoObs EXCEPT !.outcome = "config_accepted", !.m = config]
    /\ orders' = <<>>
    /\ UNCHANGED <<account_snapshot, book_snapshot, kline_snapshot, rolling_klines, state,
                   tasks, ws_open, stream>>

NextConfig == ValidateConfig

SpecConfig == InitConfig /\ [][NextConfig]_vars

\* C28: whenever LOT_SIZE, PRICE_TICK, MIN_QTY, MIN_NOTIONAL,
\* DONCHIAN_WINDOW, ROLLING_KLINES_MAXLEN, HARD_STOP_THRESHOLD_FRAC,
\* GAIN_SCALE_FRAC_BASE or GAIN_SCALE_FRAC_QUOTE is <= 0, validate_all_config
\* raises and run_with_reconnect exits before it connects: no configuration
\* with such a value is accepted.
C28_NonPositiveRejected ==
    last.outcome = "config_accepted" =>
        \A k \in PositiveSettings : RGt(last.m[k], Zero)


(***************************************************************************)
(* C29 - the callback factor as a function of the gain                      *)
(***************************************************************************)
\* anchors in both value units and gains as fractions of the anchor: none,
\* below, at and above the gain scale (0.005), and where the factor reaches
\* MIN_FACTOR (0.02) and beyond
FactorAnchors == { Rat(1, 2), Rat(199, 1), Rat(203, 1) }
FactorGainFracs == { Zero, Rat(1, 1000), Rat(5, 1000), Rat(1, 100), Rat(2, 100), Rat(1, 10), One }

HighAt(anchor, g) == RMul(anchor, RAdd(One, g))

InitFactor ==
    /\ account_snapshot = <<>>
    /\ book_snapshot = <<>>
    /\ kline_snapshot = <<>>
    /\ rolling_klines = <<>>
    /\ \E anchor \in FactorAnchors, g \in FactorGainFracs, regime \in {"BASE", "QUOTE"} :
          state = [TrailingState EXCEPT !.anchor_value = anchor,
                                        !.high_value = HighAt(anchor, g),
                                        !.current_regime = regime]
    /\ orders = <<>>
    /\ last = NoObs
    /\ pc = "running"
    /\ tasks = SessionTasks
    /\ ws_open = TRUE
    /\ stream = StreamStart

\* gain, gain_scale, callback_factor and callback of an iteration
\* (main.py:838-846) at some current value
ComputeFactor ==
    /\ \E current_value \in FactorAnchors :
          last' = [NoObs EXCEPT !.outcome = "factor", !.pre = state,
                                !.regime = state.current_regime,
                                !.current_value = current_value,
                                !.m = TrailingMath(state, current_value,
                                                   GainScaleFrac(state.current_regime))]
    /\ orders' = <<>>
    /\ UNCHANGED <<account_snapshot, book_snapshot, kline_snapshot, rolling_klines, state, pc,
                   tasks, ws_open, stream>>

NextFactor == ComputeFactor

SpecFactor == InitFactor /\ [][NextFactor]_vars

\* the trailing math of the same iteration had the gain been g x anchor
FactorAtGain(g) ==
    TrailingMath([last.pre EXCEPT !.high_value = HighAt(last.pre.anchor_value, g)],
                 last.current_value, GainScaleFrac(last.regime))

\* C29: with gain >= 0 and gain_scale > 0, callback_factor is
\* max(MIN_FACTOR, START_FACTOR / (1 + gain / gain_scale)); it does not
\* increase when the gain does (anchor and parameters fixed), it is >=
\* MIN_FACTOR and <= START_FACTOR, and it is START_FACTOR at gain 0.
C29_CallbackFactorMonotone ==
    (last.outcome = "factor" /\ RGe(last.m.gain, Zero) /\ RGt(last.m.gain_scale, Zero)) =>
        /\ ~last.m.raised
        /\ last.m.callback_factor =
              RMax(MIN_FACTOR,
                   RDiv(START_FACTOR, RAdd(One, RDiv(last.m.gain, last.m.gain_scale))))
        /\ RGe(last.m.callback_factor, MIN_FACTOR)
        /\ RLe(last.m.callback_factor, START_FACTOR)
        /\ last.m.gain = Zero => last.m.callback_factor = START_FACTOR
        /\ \A g \in FactorGainFracs :
              RGe(FactorAtGain(g).gain, last.m.gain) =>
                  RLe(FactorAtGain(g).callback_factor, last.m.callback_factor)

\* C29 witness: a gain between 0 and the gain at which the floor is reached,
\* with a factor strictly between MIN_FACTOR and START_FACTOR
C29_Witness ==
    /\ last.outcome = "factor"
    /\ RGt(last.m.gain, Zero)
    /\ RGt(last.m.callback_factor, MIN_FACTOR)
    /\ RLt(last.m.callback_factor, START_FACTOR)
    /\ FactorAtGain(One).callback_factor = MIN_FACTOR


(***************************************************************************)
(* C30 - clip in binary floating point                                     *)
(***************************************************************************)
\* A Python float is a binary floating-point number: every literal, quotient
\* and product is rounded to the nearest number m x 2^e with m of
\* MantissaBits bits (ties to the even m).  CPython's float has 53 bits; the
\* model rounds to MantissaBits bits so that every mantissa and every
\* quotient int(value / step) of the inputs below is a float exactly, as
\* int(value / step) is within the 53 bits for the amounts the program clips.
MantissaBits == 8

RECURSIVE Pow2(_)
Pow2(k) == IF k = 0 THEN 1 ELSE 2 * Pow2(k - 1)

\* r > 0 scaled by a power of two into [2^(MantissaBits-1), 2^MantissaBits)
RECURSIVE ScaleToMantissa(_, _)
ScaleToMantissa(r, e) ==
    IF RGe(r, Rat(Pow2(MantissaBits), 1)) THEN ScaleToMantissa(RDiv(r, Rat(2, 1)), e + 1)
    ELSE IF RLt(r, Rat(Pow2(MantissaBits - 1), 1)) THEN ScaleToMantissa(RMul(r, Rat(2, 1)), e - 1)
    ELSE <<r, e>>

\* the float nearest to the real number r >= 0 (round half to even)
fl(r) ==
    IF r = Zero THEN Zero
    ELSE LET se == ScaleToMantissa(r, 0)
             q == se[1]
             e == se[2]
             lo == q[1] \div q[2]
             twice == RMul(RSub(q, Rat(lo, 1)), Rat(2, 1))
             m == IF RGt(twice, One) THEN lo + 1
                  ELSE IF RLt(twice, One) THEN lo
                  ELSE IF lo % 2 = 0 THEN lo ELSE lo + 1
         IN  IF e >= 0 THEN Rat(m * Pow2(e), 1) ELSE Rat(m, Pow2(-e))

\* clip(value, step) as the interpreter evaluates it: value / step is
\* rounded, int() truncates, and the product with step is rounded
clip_float(value, step) ==
    IF value = None \/ step = None \/ step = Zero
    THEN Zero
    ELSE fl(RMul(Rat(RTrunc(fl(RDiv(value, step))), 1), step))

\* amounts 0.00 .. 2.50 in hundredths and the steps 0.01, 0.1 and 1 as the
\* floats their literals denote, and the missing / zero operands
MaxHundredths == 250
ClipValue(n) == IF n < 0 THEN None ELSE fl(Rat(n, 100))
ClipStep(i) == IF i = 0 THEN None
               ELSE IF i = 1 THEN Zero
               ELSE IF i = 2 THEN fl(Rat(1, 100))
               ELSE IF i = 3 THEN fl(Rat(1, 10))
               ELSE One

InitClip ==
    /\ account_snapshot = <<>>
    /\ book_snapshot = <<>>
    /\ kline_snapshot = <<>>
    /\ rolling_klines = <<>>
    /\ state = TrailingState
    /\ orders = <<>>
    /\ last = NoObs
    /\ pc = "running"
    /\ tasks = SessionTasks
    /\ ws_open = TRUE
    /\ stream = StreamStart

\* one call clip(value, step), on arguments drawn once per behaviour
Clip ==
    /\ last.outcome = "none"
    /\ \E n \in -1..MaxHundredths, i \in 0..4 :
          last' = [NoObs EXCEPT !.outcome = "clip",
                                !.m = [value |-> ClipValue(n), step |-> ClipStep(i),
                                       result |-> clip_float(ClipValue(n), ClipStep(i))]]
    /\ orders' = <<>>
    /\ UNCHANGED <<account_snapshot, book_snapshot, kline_snapshot, rolling_klines, state, pc,
                   tasks, ws_open, stream>>

NextClip == Clip

SpecClip == InitClip /\ [][NextClip]_vars

\* r is a whole number of steps
IsMultipleOf(r, step) == RDiv(r, step)[2] = 1

\* C30: clip rounds down to the step: for x >= 0 and step > 0,
\* clip(x, step) <= x, clip(x, step) is an exact multiple of step and
\* x - clip(x, step) < step; clip(None, step), clip(x, 0) and clip(x, None)
\* are 0, and no call raises a division fault.
C30_ClipRoundsDown ==
    last.outcome = "clip" =>
        LET x == last.m.value
            step == last.m.step
            r == last.m.result
        IN  IF x = None \/ step = None
            THEN r = Zero
            ELSE IF step = Zero
            THEN r = Zero
            ELSE /\ RLe(r, x)
                 /\ IsMultipleOf(r, step)
                 /\ RLt(RSub(x, r), step)

(***************************************************************************)
(* C31 - a notifier failure is not fatal                                   *)
(***************************************************************************)
\* TELEGRAM_BOT_TOKEN / TELEGRAM_GROUP_CHAT_ID_1 / TELEGRAM_GROUP_CHAT_ID_2
\* as the process may find them
TelegramEnvs ==
    { NoTelegram,
      [token |-> None, chat |-> None, group1 |-> "g1", group2 |-> "g2"],
      [token |-> "token", chat |-> None, group1 |-> "g1", group2 |-> "g2"] }

InitNotify ==
    /\ account_snapshot \in AccountSnapshots(FreeStrs)
    /\ book_snapshot \in BookSnapshots
    /\ kline_snapshot \in KlineMsgs(ROLLING_KLINES_MAXLEN)
    /\ rolling_klines \in Histories
    /\ state = TrailingState
    /\ orders = <<>>
    /\ last = NoObs
    /\ pc = "running"
    /\ tasks = SessionTasks
    /\ ws_open = TRUE
    /\ stream = StreamStart

\* main_trading_loop: one loop iteration, Telegram configured or not
TickNotify == TickIn(TelegramEnvs)

\* send_telegram_message(message, chat_id) called on its own, as the tests of
\* the notifier call it, before the first loop iteration
SendTelegram ==
    /\ pc = "running"
    /\ rolling_klines \in Histories
    /\ last.outcome = "none"
    /\ \E token \in {None, "", "token"}, chat \in {None, "12345"}, chat_id \in {None, "g1"},
          http \in HttpOutcomes :
          last' = [NoObs EXCEPT !.outcome = "telegram",
                                !.notify = [token |-> token, chat |-> chat, chat_id |-> chat_id,
                                            http |-> http,
                                            resp |-> send_telegram_message(token, chat, chat_id,
                                                                           http)]]
    /\ orders' = <<>>
    /\ UNCHANGED <<account_snapshot, book_snapshot, kline_snapshot, rolling_klines, state, pc,
                   tasks, ws_open, stream>>

NextNotify ==
    \/ TickNotify
    \/ SendTelegram
    \/ AccountPosition(FreeStrs)
    \/ BookTicker
    \/ KlineMessage

SpecNotify == InitNotify /\ [][NextNotify]_vars

\* the latest step was a loop iteration that reached the flip block
FlipTick == last.outcome # "none" /\ last.outcome # "telegram" /\ last.flip

\* C31: send_telegram_message never raises and returns True exactly when a
\* bot token and a target chat id are present and the post answered with
\* status 200 (False on a missing token, a missing chat id, an exception of
\* the post and every other status); and the loop iteration of a regime flip
\* runs to its end with anchor and high water reset whatever the notifier
\* did.
C31_NotifierNonFatal ==
    /\ last.outcome = "telegram" =>
          LET c == last.notify
              target == IF ~Falsy(c.chat_id) THEN c.chat_id ELSE c.chat
          IN  /\ ~c.resp.raised
              /\ c.resp.value = (~Falsy(c.token) /\ ~Falsy(target) /\ c.http = "200")
    /\ FlipTick =>
          /\ ~last.notify.raised
          /\ \A i \in 1..Len(last.notify.calls) :
                last.notify.calls[i].value
                   = (~Falsy(last.notify.env.token) /\ last.notify.calls[i].http = "200")
          /\ last.outcome = "done"
          /\ pc = "running"
          /\ state.anchor_value = last.current_value
          /\ state.high_value = last.current_value
          /\ state.current_regime = last.regime

\* a flip iteration in which one notification was delivered and one failed
\* on an exception of the post, and that went on to submit an order
C31_Witness ==
    /\ FlipTick
    /\ last.outcome = "done"
    /\ Len(last.notify.calls) = 2
    /\ last.notify.calls[1].http = "Timeout"
    /\ last.notify.calls[2].http = "200"
    /\ last.notify.value = 1
    /\ orders # <<>>

(***************************************************************************)
(* C32 - what the gate reset resets                                        *)
(***************************************************************************)
\* the state right after the gate-reset block of the latest iteration
AfterGateReset ==
    DonchianGateReset(last.pre, last.bal, last.last_close, last.last_mid, last.bid, last.ask)

\* C32: in an iteration whose gate-reset block deactivates the gate, the
\* state right after that block has anchor_value and high_value set (to the
\* same value) and maker_exit_armed and hard_stop_armed both false.
C32_GateResetClearsArmFlags ==
    last.gate_reset =>
        /\ AfterGateReset.anchor_value # None
        /\ AfterGateReset.high_value = AfterGateReset.anchor_value
        /\ ~AfterGateReset.maker_exit_armed
        /\ ~AfterGateReset.hard_stop_armed

(***************************************************************************)
(* C33 - HARD_STOP_SELL and the gate                                       *)
(***************************************************************************)
\* C33: a loop iteration submits a HARD_STOP_SELL order only while the gate
\* is ACTIVE (nothing changes the gate between the order block and the end
\* of the iteration); after the gate has returned to INACTIVE no
\* HARD_STOP_SELL is submitted until the trigger fires again, which makes
\* the gate ACTIVE.
C33_HardStopOnlyWhileGateActive ==
    (TickDone /\ HardStopSent # {}) => state.donchian_gate_active

(***************************************************************************)
(* C34 - what ends the reconnect loop                                      *)
(***************************************************************************)
\* C34: run_with_reconnect starts a new session after every failure of a
\* session, and only a logon answer other than 200 ends it (the operator's
\* Ctrl-C is not among the inputs of SpecSession): whenever the process has
\* ended, the step that ended it was a refused logon.
C34_OnlyLogonFailureEndsLoop ==
    pc = "exited" => last.outcome = "logon_failed"

(***************************************************************************)
(* C35 - a listener that has ended                                         *)
(***************************************************************************)
InitListeners ==
    /\ account_snapshot \in AccountSnapshots(SessionFreeStrs)
    /\ book_snapshot \in BookSnapshots
    /\ kline_snapshot \in KlineMsgs(ROLLING_KLINES_MAXLEN)
    /\ rolling_klines \in Histories
    /\ state = TrailingState
    /\ orders = <<>>
    /\ last = NoObs
    /\ pc = "running"
    /\ tasks = SessionTasks
    /\ ws_open = TRUE
    /\ stream = StreamStart

\* a task of stream_bookticker_shared / stream_kline_shared ends: the
\* function re-raises after MAX_RETRIES failed connections in a row or on an
\* unexpected error.  The task was started with asyncio.create_task and
\* nothing awaits it, so its exception stays in the task.
ListenerEnds ==
    /\ pc = "running"
    /\ \E l \in {"book", "kline"} :
          /\ tasks[l] > 0
          /\ tasks' = [tasks EXCEPT ![l] = tasks[l] - 1]
    /\ orders' = <<>>
    /\ last' = NoObs
    /\ UNCHANGED <<account_snapshot, book_snapshot, kline_snapshot, rolling_klines, state, pc,
                   ws_open, stream>>

NextListeners ==
    \/ Tick
    \/ AccountPosition(SessionFreeStrs)
    \/ BookTicker
    \/ KlineMessage
    \/ ConnectionLost
    \/ ListenerEnds
    \/ Reconnect

\* the event loop schedules the trading loop (main_trading_loop sleeps
\* LOOP_SLEEP_SEC between iterations), so loop iterations go on as long as
\* the session runs: again and again the latest step is a loop iteration (or
\* the step that ended the session or the process)
LoopKeepsIterating == []<>(OutcomeOf(last) # "none")

\* run_with_reconnect sleeps retry_wait after a failed session and then
\* connects again: a reconnect is not put off for ever
SpecListeners ==
    InitListeners /\ [][NextListeners]_vars /\ LoopKeepsIterating /\ WF_pc(Reconnect)

\* the session is running and no task of some listener is
ListenerDown == pc = "running" /\ \E l \in Listeners : tasks[l] = 0

\* C35: once a listener of the running session has ended, the session does
\* not go on for ever: eventually main_trading_loop is left (to be restarted
\* by run_with_reconnect) or the process ends.
C35_ListenerLossEndsSession == ListenerDown ~> (pc # "running")

(***************************************************************************)
(* C36 - the maker exit is persistent                                      *)
(***************************************************************************)
\* the latest step was a loop iteration, however it ended
IsTick ==
    OutcomeOf(last) \in {"done", "no_regime", "raised", "no_book", "key_error", "send_failed",
                         "notify_raised"}

EndedBeforeTrading ==
    OutcomeOf(last) \in {"no_book", "key_error", "no_regime", "raised", "notify_raised"}

\* C37: a loop iteration that finds manual_exit_triggered set leaves it set
\* when trading is gated in it (skip_trading) or when maker_exit_armed is
\* already true at the maker-exit step, a regime flip in the iteration
\* included (reset_for_regime_flip does not touch the flag); and an iteration
\* that reaches the maker-exit step ungated, with maker_exit_armed false and
\* the flag set, ends with maker_exit_armed true and the flag cleared.
C37_ManualOverrideWaits ==
    (IsTick /\ last.pre.manual_exit_triggered) =>
        /\ (EndedBeforeTrading \/ last.skip_trading \/ ArmedAtBlock) =>
              state.manual_exit_triggered
        /\ (TickDone /\ ~last.skip_trading /\ ~ArmedAtBlock) =>
              (state.maker_exit_armed /\ ~state.manual_exit_triggered)

\* a gated iteration with a regime flip that found the flag set
C37_Witness ==
    /\ TickDone
    /\ last.pre.manual_exit_triggered
    /\ last.skip_trading
    /\ last.flip
    /\ state.manual_exit_triggered

\* an ungated iteration that found the flag set and the exit armed already
C37_WitnessArmed ==
    /\ TickDone
    /\ last.pre.manual_exit_triggered
    /\ ~last.skip_trading
    /\ ArmedAtBlock
    /\ state.manual_exit_triggered

\* the flag set in an earlier, gated iteration arms the exit in this one
C37_WitnessConsumed ==
    /\ TickDone
    /\ last.pre.manual_exit_triggered
    /\ last.pre.donchian_gate_active
    /\ last.gate_reset
    /\ ~ArmedAtBlock
    /\ ~CallbackHit
    /\ state.maker_exit_armed
    /\ ~state.manual_exit_triggered

(***************************************************************************)
(* C38 - account_ws_receiver stops on a closed connection only             *)
(***************************************************************************)
\* entries of "B": complete ones (two balances of the base asset, one of the
\* quote asset), and one without "f" (entry["f"] raises KeyError)
RecvEntries ==
    { [a |-> BASE_ASSET, f |-> e.f, l |-> e.l] : e \in SnapEntries }
        \cup { [a |-> QUOTE_ASSET, f |-> Dec8(100, 0), l |-> Dec8(0, 0)] }
        \cup { [a |-> BASE_ASSET, l |-> Dec8(0, 0)] }

\* longest "B" list of a message
MaxEntries == 2

RecvLists == UNION { [1..n -> RecvEntries] : n \in 0..MaxEntries }

\* what ws.recv() returns: text that is not JSON, a JSON list, or a JSON
\* object; of an object, whether its payload is under "event", the payload's
\* "e" (None when absent, as in the response to a request) and its "B".
\* The events are an outboundAccountPosition, under "event" or not, and
\* another event that has a "B" list as well.
RecvMessages ==
    { [json |-> j, wrapped |-> FALSE, e |-> None, B |-> <<>>] :
         j \in {"invalid", "list", "dict"} }
        \cup { [json |-> "dict", wrapped |-> w, e |-> "outboundAccountPosition", B |-> B] :
                  w \in BOOLEAN, B \in RecvLists }
        \cup { [json |-> "dict", wrapped |-> TRUE, e |-> "executionReport", B |-> B] :
                  B \in RecvLists }

\* what `await ws.recv()` does: it returns a message, or raises
\* ConnectionClosed, or raises something else
RecvOutcomes ==
    { [raised |-> "", message |-> m] : m \in RecvMessages }
        \cup { [raised |-> x, message |-> [json |-> "invalid", wrapped |-> FALSE,
                                           e |-> None, B |-> <<>>]] :
                  x \in {"ConnectionClosed", "RuntimeError"} }

\* `for entry in data.get("B", [])`: the entries are written one by one, and
\* an exception leaves the loop with the earlier ones written
RECURSIVE ParseEntries(_, _, _)
ParseEntries(snapshot_dict, B, i) ==
    IF i > Len(B) THEN [snapshot |-> snapshot_dict, raised |-> FALSE]
    ELSE IF ~({"a", "f", "l"} \subseteq DOMAIN B[i])
         THEN [snapshot |-> snapshot_dict, raised |-> TRUE]
         ELSE ParseEntries(
                 DictUpdate(snapshot_dict, [a \in {B[i].a} |-> Balance(B[i].f, B[i].l)]),
                 B, i + 1)

\* variant of parse_account_balance_event without the test of the event
\* type
parse_account_balance_event_AnyEvent(message, snapshot_dict) ==
    IF message.json # "dict"
    THEN [snapshot |-> snapshot_dict, value |-> FALSE]
    ELSE LET r == ParseEntries(snapshot_dict, message.B, 1)
         IN  [snapshot |-> r.snapshot, value |-> ~r.raised]

\* parse_account_balance_event(message, snapshot_dict): the snapshot it
\* leaves and the value it returns
parse_account_balance_event(message, snapshot_dict) ==
    IF message.json = "invalid"
    THEN \* json.loads raises, `except Exception: return False`
         [snapshot |-> snapshot_dict, value |-> FALSE]
    ELSE IF message.json # "dict"
    THEN [snapshot |-> snapshot_dict, value |-> FALSE]
    ELSE IF message.e = "outboundAccountPosition"
    THEN LET r == ParseEntries(snapshot_dict, message.B, 1)
         IN  [snapshot |-> r.snapshot, value |-> ~r.raised]
    ELSE [snapshot |-> snapshot_dict, value |-> FALSE]

\* variant of the receiver that leaves its loop on every exception, used to
\* test the sensitivity of C38
account_ws_receiver_BreakOnError(recv, snapshot_dict) ==
    IF recv.raised # ""
    THEN [snapshot |-> snapshot_dict, looping |-> FALSE]
    ELSE [snapshot |-> parse_account_balance_event(recv.message, snapshot_dict).snapshot,
          looping |-> TRUE]

\* account_ws_receiver(ws, snapshot_dict), one pass of `while True`: the
\* snapshot it leaves and whether the loop goes on
account_ws_receiver(recv, snapshot_dict) ==
    IF recv.raised = "ConnectionClosed"
    THEN [snapshot |-> snapshot_dict, looping |-> FALSE]
    ELSE IF recv.raised # ""
    THEN [snapshot |-> snapshot_dict, looping |-> TRUE]
    ELSE [snapshot |-> parse_account_balance_event(recv.message, snapshot_dict).snapshot,
          looping |-> TRUE]

\* one pass of the receiver's loop
AccountReceive ==
    /\ pc = "running"
    /\ tasks["account"] > 0
    /\ \E recv \in RecvOutcomes :
          LET r == account_ws_receiver(recv, account_snapshot)
          IN  /\ account_snapshot' = r.snapshot
              /\ tasks' = [tasks EXCEPT !["account"] = IF r.looping THEN @ ELSE 0]
              /\ last' = [NoObs EXCEPT !.outcome = "account_recv",
                                       !.m = [recv |-> recv, before |-> account_snapshot]]
    /\ orders' = <<>>
    /\ UNCHANGED <<book_snapshot, kline_snapshot, rolling_klines, state, pc, ws_open, stream>>

NextReceiver == AccountReceive

SpecReceiver == InitSnap /\ [][NextReceiver]_vars

\* the receiver has just done one pass of its loop
Received == OutcomeOf(last) = "account_recv"

\* C38: a pass of the receiver's loop ends the loop if and only if ws.recv()
\* raised ConnectionClosed; after any other exception and after any message,
\* well-formed or not, the loop goes on; and a message that is not an
\* outboundAccountPosition event leaves the account snapshot as it was.
C38_ReceiverStopsOnCloseOnly ==
    Received =>
        /\ tasks["account"] = 0 <=> last.m.recv.raised = "ConnectionClosed"
        /\ (\/ last.m.recv.raised # ""
            \/ last.m.recv.message.json # "dict"
            \/ last.m.recv.message.e # "outboundAccountPosition") =>
              account_snapshot = last.m.before

\* the loop goes on after an exception that is not ConnectionClosed and
\* after an event whose second entry lacks "f", with balances received
\* earlier still in the snapshot
C38_Witness ==
    /\ Received
    /\ tasks["account"] > 0
    /\ DOMAIN account_snapshot = Assets
    /\ \/ last.m.recv.raised = "RuntimeError"
       \/ /\ last.m.recv.raised = ""
          /\ last.m.recv.message.e = "outboundAccountPosition"
          /\ Len(last.m.recv.message.B) = MaxEntries
          /\ "f" \notin DOMAIN last.m.recv.message.B[MaxEntries]

(***************************************************************************)
(* C39 - the high water mark is never below the anchor                     *)
(***************************************************************************)
\* x and y are both None or the same number
SameOpt(x, y) == IF x = None THEN y = None ELSE (y # None /\ x = y)

\* C39: whenever anchor_value and high_value are both set, high_value >=
\* anchor_value; the gain a loop iteration computes is >= 0; and an
\* iteration that changes anchor_value has a gate reset or a regime-flip
\* reset, each of which sets high_value to the value it gives anchor_value.
C39_HighAtLeastAnchor ==
    /\ (state.anchor_value # None /\ state.high_value # None) =>
          Over(state.high_value, state.anchor_value)
              >= Over(state.anchor_value, state.high_value)
    /\ (TickDone \/ OutcomeOf(last) = "raised") =>
          Over(last.m.gain, Zero) >= Over(Zero, last.m.gain)
    /\ IsTick =>
          /\ ~SameOpt(state.anchor_value, last.pre.anchor_value) =>
                (last.gate_reset \/ last.flip)
          /\ last.gate_reset =>
                SameOpt(AfterGateReset.high_value, AfterGateReset.anchor_value)
          /\ last.flip =>
                SameOpt(AfterFlipBlock(last).high_value, AfterFlipBlock(last).anchor_value)

\* an iteration without a regime flip whose gate reset gave anchor_value a
\* new value below the high water mark the iteration found
C39_Witness ==
    /\ TickDone
    /\ last.gate_reset
    /\ ~last.flip
    /\ last.pre.anchor_value # None
    /\ ~SameOpt(state.anchor_value, last.pre.anchor_value)
    /\ Over(last.pre.high_value, state.anchor_value)
           > Over(state.anchor_value, last.pre.high_value)
    /\ state.high_value # None

(***************************************************************************)
(* C40 - the two gate fields agree                                         *)
(***************************************************************************)
\* C40: in every state donchian_gate_active is true if and only if
\* last_donchian_regime is BASE or QUOTE, and last_donchian_regime is None
\* if and only if donchian_gate_active is false.
C40_GateFieldsConsistent ==
    /\ state.donchian_gate_active <=> state.last_donchian_regime \in {"BASE", "QUOTE"}
    /\ ~state.donchian_gate_active <=> state.last_donchian_regime = None

\* an iteration whose hard stop trigger raised the gate
C40_Witness ==
    /\ TickDone
    /\ ~last.pre.donchian_gate_active
    /\ last.pre.last_donchian_regime = None
    /\ state.donchian_gate_active
    /\ state.last_donchian_regime = last.regime

\* an iteration that released the gate and left it released
C40_WitnessReleased ==
    /\ TickDone
    /\ last.gate_reset
    /\ ~state.donchian_gate_active
    /\ state.last_donchian_regime = None
====
